---- MODULE Spec2Model ----
(***************************************************************************)
(* Model of the screenshot tool's concurrent capture engine.               *)
(*                                                                         *)
(*   SpecPool     BrowserPool: get_browser, BrowserHandle drop and         *)
(*                return_browser, restart_instance_internal, the deep      *)
(*                health check and shutdown (src/src/browser_pool.rs),     *)
(*                with take_screenshot as the holder of the lease          *)
(*                (src/src/screenshot_service.rs).                         *)
(*   FairPool     SpecPool with the weak fairness of the tokio runtime.    *)
(*   SpecService  ScreenshotService: process_requests, the per-request     *)
(*                retry loop and the CircuitBreaker                        *)
(*                (src/src/screenshot_service.rs, src/src/error.rs); the   *)
(*                capture path is an input that returns Ok or one of the   *)
(*                errors take_screenshot can return.                       *)
(*   SpecUrl      SpecService for requests of every kind of url.           *)
(*   SpecPriority SpecService for requests of every priority.              *)
(*   SpecBreaker  the CircuitBreaker at the granularity of its locks, as   *)
(*                concurrent capture tasks call it (src/src/error.rs);     *)
(*                SpecService takes each breaker operation as one step.    *)
(*   SpecSort     the order process_requests gives its requests and        *)
(*                Results.                                                 *)
(*   SpecBatch    WorkerPool and BatchProcessor (src/src/worker.rs).       *)
(*   SpecShutdown SpecPool with shutdown called twice.                     *)
(*   SpecMemory   MemoryMonitor (src/src/utils.rs).                        *)
(*   SpecRate     RateLimiter as concurrent tasks call it                  *)
(*                (src/src/utils.rs).                                      *)
(*   SpecFile     the file name of a saved result (src/src/cli.rs).        *)
(*   SpecOutcome  SpecService for valid and unparsable urls, the breaker   *)
(*                new.                                                     *)
(*   SpecScan     SpecPool with the clock readings of the deep health      *)
(*                check kept in the state.                                 *)
(*   SpecQuick    the pool with the quick health check in place of the     *)
(*                deep one.                                                *)
(*   SpecLocks    BrowserPool at the granularity of its two tokio mutexes, *)
(*                from BrowserPool::new on (src/src/browser_pool.rs);      *)
(*                SpecPool takes each use of `available` as one step.      *)
(*   SpecSave     the files run_batch writes for the results of a batch    *)
(*                (src/src/cli.rs).                                        *)
(*   SpecProgress ProgressTracker as the progress task and the tasks that  *)
(*                record completions call it (src/src/worker.rs).          *)
(*                                                                         *)
(* Every await of the code is a separate step.  A tokio Mutex is a         *)
(* variable that names its holder; `lock().await` is enabled only while    *)
(* the mutex is free, also for the task that holds it (the mutex is not    *)
(* reentrant).                                                             *)
(***************************************************************************)
EXTENDS Integers, Sequences, FiniteSets, TLC

\* ---------------------------------------------------------------- bounds
PoolSize == 1            \* config.browser_pool_size (P)
NumCallers == 2          \* concurrent take_screenshot calls
MaxShutdownRetries == 2  \* stands for the 10 polls of shutdown
NumShutdownCallers == 1  \* callers at work while shutdown is called twice
MaxConcurrent == 1       \* config.max_concurrent_screenshots (C)
NumCalls == 2            \* concurrent process_requests calls
NumRequests == 2         \* requests submitted over all the calls
ChannelCapacity == 1     \* stands for the 1000 of both mpsc channels
MaxBatchSize == 4        \* requests of one process_batch call
retry_attempts == 1      \* config.retry_attempts (R) of the service
NumCaptureTasks == 2     \* tasks that use the breaker concurrently
MaxFailureCount == 6     \* cap of the AtomicUsize failure_count
MaxCallRequests == 3     \* requests of the process_requests call that sorts
MaxMemory == 10          \* largest max_memory of a MemoryMonitor
NumAcquirers == 2        \* tasks that call the RateLimiter concurrently
requests_per_second == 2 \* requests_per_second of the RateLimiter
MaxClock == 4            \* seconds the clock of the RateLimiter runs
MaxAcquireCalls == 5     \* calls of the RateLimiter over all the tasks
MaxTotal == 2            \* the requests of a batch (ProgressTracker.total)
NumRecorders == 1        \* tasks that call record_completion
MaxTailLen == 2          \* characters of a url after the host and a slash
NumLockTasks == 2        \* tasks that call the pool (SpecLocks)
NumResults == 2          \* successful results of one batch
MaxPairTail == 1         \* characters after the host's slash in their urls

\* ---------------------------------------------------------------- constants
failure_threshold == 5   \* CircuitBreaker::new(5, ..)
max_attempts == 3        \* RetryConfig::default().max_attempts
window_size == 1         \* window_size: Duration::from_secs(1)

\* ---------------------------------------------------------------- names
Ids == 0 .. (PoolSize - 1)
NoId == -1
Callers == 1 .. NumCallers
NoTask == 0
HealthTask == NumCallers + 1
ShutdownTask == NumCallers + 2
RestartTasks == Callers \cup {HealthTask}
\* a second call of shutdown, by another task or after the first
SecondShutdown == NumCallers + 3
ShutdownTasks == {ShutdownTask, SecondShutdown}

VARIABLES
    \* BrowserPool
    status,            \* instance.status, per id
    alive,             \* ~instance.handler.is_finished(), per id
    drained,           \* instances.drain(..) has emptied the vector
    available,         \* the available queue (VecDeque<usize>)
    permits,           \* free permits of pool.semaphore
    is_shutting_down,  \* the AtomicBool
    instLock,          \* holder of the instances mutex
    browserLock,       \* holder of instance.browser's mutex, per id
    returning,         \* spawned return_browser tasks not yet run, per id
    \* tasks
    pc,                \* position of each task
    attempt,           \* get_browser's loop variable, per caller
    target,            \* instance_id popped / being restarted, per task
    lease,             \* id of the BrowserHandle a caller owns
    stale,             \* the handle's browser was replaced by a restart
    holdsPermit,       \* the caller's get_browser owns _permit
    result,            \* what the caller's take_screenshot returned
    restart_list,      \* deep_health_check's instances_to_restart
    retries,           \* shutdown's poll counter, per call
    drain_idx,         \* next instance shutdown closes
    closes,            \* times shutdown has closed the browser of an
                       \* instance, per id (history)
    \* CircuitBreaker
    cb_state,          \* state
    failure_count,     \* failure_count
    last_failure_time, \* "None", or Some(t): "Recent" while t.elapsed() <=
                       \* recovery_timeout, "Elapsed" after
    \* the breaker at the granularity of its locks
    failure_time_lock, \* holder of the last_failure_time mutex
    bt_pc,             \* position of each capture task in its attempt
    failures,          \* record_failure's local failures, per task
    undisturbed,       \* the task has completed a record_success and no
                       \* other task has touched the breaker since that
                       \* call began (history)
    unbroken,          \* no record_success has run since the task's
                       \* record_failure began (history)
    streak,            \* record_failure calls that ran from begin to end
                       \* with no record_success since the first of them
                       \* began, up to F (history)
    failed_since,      \* record_failure calls completed since the last
                       \* record_success began, up to F (history)
    failure_age,       \* the time since the last record_failure wrote
                       \* its timestamp, whatever became of the timestamp:
                       \* "None", "Recent" or "Elapsed" (history)
    \* the requests submitted to the service
    request_url,       \* request.url, per request
    request_priority,  \* request.priority, per request
    \* one process_requests call and the order of its requests
    requests,          \* requests: the priority of each, in input order
    sorted_requests,   \* sorted_requests: positions in requests
    returned,          \* the Vec returned: the request of each Result
    sort_ret,          \* "Ok" or "Err" once the call has returned
    sort_pc,           \* position of the call
    \* process_requests calls and their spawned tasks
    call_pc,           \* position of each call
    call_tasks,        \* the tasks the call spawned, one per request
    call_ret,          \* what the call returned
    semaphore,         \* free permits of the call's local semaphore
    task_pc,           \* position of each spawned task
    task_attempt,      \* the loop variable attempt
    invocations,       \* times take_screenshot was invoked for the request
    last_error,        \* last_error
    task_out,          \* what take_screenshot_with_retry returned
    \* WorkerPool / BatchProcessor
    request_chan,      \* the request channel's buffer
    result_chan,       \* the result channel's buffer
    receiver_lock,     \* holder of the shared receiver's mutex
    worker_pc,         \* position of each worker
    worker_item,       \* the request / result a worker holds
    batch_pc,          \* position of process_batch
    total_requests,    \* total_requests
    submitted,         \* requests submitted so far
    results,           \* results collected so far
    \* MemoryMonitor
    max_memory,        \* max_memory
    current_usage,     \* current_usage
    memory_status,     \* what check_memory returned since the last
                       \* update_usage, "None" before it is called
    \* RateLimiter
    clock,             \* the monotonic clock Instant::now() reads, in
                       \* seconds
    request_times,     \* request_times
    acq_pc,            \* position of each task that calls the limiter
    acq_now,           \* the local now of the task's call
    acq_ret,           \* what the task's last acquire returned
    current_rate,      \* what the last get_current_rate returned
    acquire_calls,     \* calls made so far
    granted,           \* the now of every acquire that returned true
                       \* (history)
    \* CliRunner: saving a successful result
    result_url,        \* result.url, a sequence of characters
    result_format,     \* result.format
    filename,          \* the file name generated for it
    \* the clock, as one deep health check reads it
    over_age,          \* the instances whose age() is above 1 h
    over_idle,         \* the instances whose idle_time() is above 10 min
    warned,            \* the instances the last quick health check logged
                       \* a warning for
    \* ProgressTracker
    total,             \* total
    completed,         \* completed (AtomicUsize)
    errors,            \* errors (AtomicUsize)
    rec_pc,            \* position of each task inside record_completion
    rec_calls,         \* record_completion calls begun so far
    rd_pc,             \* position of the task that calls get_progress
    rd_completed,      \* its local completed
    rd_errors,         \* its local errors
    progress_info,     \* the ProgressInfo its last call returned
    \* CliRunner: saving the results of a batch
    batch_urls,        \* result.url of the successful results, in order
    batch_format,      \* their format
    files,             \* the files of the output directory: name and the
                       \* url whose data the file holds
    saved,             \* results saved so far
    \* BrowserPool at the granularity of its two locks
    instances_lock,    \* the task that holds the guard of `instances`
    available_lock,    \* the task that holds the guard of `available`
    lk_pc,             \* position of each task
    lk_op              \* the operation of the pool the task is in

poolVars == <<status, alive, drained, available, permits, is_shutting_down,
              instLock, browserLock, returning, pc, attempt, target, lease,
              stale, holdsPermit, result, restart_list, retries, drain_idx,
              closes>>

requestVars == <<request_url, request_priority>>

attemptVars == <<failure_time_lock, bt_pc, failures, undisturbed, unbroken,
                 streak, failed_since, failure_age>>

callVars == <<call_pc, call_tasks, call_ret, semaphore, task_pc, task_attempt,
              invocations, last_error, task_out>>

sortVars == <<requests, sorted_requests, returned, sort_ret, sort_pc>>

svcVars == <<cb_state, failure_count, last_failure_time, attemptVars,
             requestVars, callVars, sortVars>>

batchVars == <<request_chan, result_chan, receiver_lock, worker_pc,
               worker_item, batch_pc, total_requests, submitted, results>>

memoryVars == <<max_memory, current_usage, memory_status>>

rateVars == <<clock, request_times, acq_pc, acq_now, acq_ret, current_rate,
              acquire_calls, granted>>

fileVars == <<result_url, result_format, filename>>

\* the clock readings of one deep health check (SpecScan)
scanVars == <<over_age, over_idle, warned>>

progressVars == <<total, completed, errors, rec_pc, rec_calls, rd_pc,
                  rd_completed, rd_errors, progress_info>>

pairVars == <<batch_urls, batch_format, files, saved>>

lockVars == <<instances_lock, available_lock, lk_pc, lk_op>>

utilVars == <<memoryVars, rateVars, fileVars, scanVars, progressVars,
              pairVars, lockVars>>

vars == <<poolVars, svcVars, batchVars, utilVars>>

\* ---------------------------------------------------------------- helpers
RECURSIVE SortedSeq(_)
SortedSeq(S) ==
    IF S = {} THEN <<>>
    ELSE LET m == CHOOSE x \in S : \A y \in S : x <= y
         IN <<m>> \o SortedSeq(S \ {m})

\* VecDeque::pop_front as get_browser uses it: what stays in the queue
front_kept(q) == q

pop_front(q) == Tail(q)

\* BrowserInstance::is_healthy
is_healthy(i) == status[i] = "Healthy"

\* BrowserInstance::mark_used
mark_used(st, i) == [st EXCEPT ![i] = "Busy"]

\* BrowserInstance::mark_available
mark_available(st, i) == [st EXCEPT ![i] = "Healthy"]

\* Drop for BrowserHandle: spawns return_browser(instance_id)
DropHandleTwice(ret, i) == [ret EXCEPT ![i] = @ + 2]

DropHandle(ret, i) == [ret EXCEPT ![i] = @ + 1]

\* the browser mutex a handle of caller c refers to is the instance's
\* current one unless a restart has replaced the browser since
Unlock(bl, c) ==
    IF lease[c] # NoId /\ ~stale[c] /\ bl[lease[c]] = c
    THEN [bl EXCEPT ![lease[c]] = NoTask] ELSE bl

\* ---------------------------------------------------------------- Init
\* BrowserPool::new, initialize_instances
InitPool ==
    /\ status = [i \in Ids |-> "Healthy"]
    /\ alive = [i \in Ids |-> TRUE]
    /\ drained = FALSE
    /\ available = SortedSeq(Ids)
    /\ permits = PoolSize
    /\ is_shutting_down = FALSE
    /\ instLock = NoTask
    /\ browserLock = [i \in Ids |-> NoTask]
    /\ returning = [i \in Ids |-> 0]
    /\ pc = [t \in Callers \cup {HealthTask} \cup ShutdownTasks |->
                IF t \in Callers THEN "idle"
                ELSE IF t = HealthTask THEN "loop" ELSE "running"]
    /\ attempt = [c \in Callers |-> 0]
    /\ target = [t \in RestartTasks |-> NoId]
    /\ lease = [c \in Callers |-> NoId]
    /\ stale = [c \in Callers |-> FALSE]
    /\ holdsPermit = [c \in Callers |-> FALSE]
    /\ result = [c \in Callers |-> "None"]
    /\ restart_list = <<>>
    /\ retries = [s \in ShutdownTasks |-> 0]
    /\ drain_idx = 0
    /\ closes = [i \in Ids |-> 0]

Calls == 1 .. NumCalls
Tasks == 1 .. NumRequests
TasksOf(k) == call_tasks[k]
CallOf(t) == CHOOSE k \in Calls : t \in call_tasks[k]
FreeTasks == Tasks \ UNION {call_tasks[k] : k \in Calls}

\* CircuitBreaker::new
NewBreaker ==
    /\ cb_state = "Closed"
    /\ failure_count = 0
    /\ last_failure_time = "None"

CaptureTasks == 1 .. NumCaptureTasks

\* no task is inside an attempt, nobody holds the timestamp's mutex
NoAttempts ==
    /\ failure_time_lock = NoTask
    /\ bt_pc = [th \in CaptureTasks |-> "idle"]
    /\ failures = [th \in CaptureTasks |-> 0]
    /\ undisturbed = [th \in CaptureTasks |-> FALSE]
    /\ unbroken = [th \in CaptureTasks |-> FALSE]
    /\ streak = 0
    /\ failed_since = 0
    /\ failure_age = "None"

\* the breaker of a service that has served earlier calls: it counts
\* their failures since the last success
UsedBreaker ==
    /\ cb_state = "Closed"
    /\ failure_count \in 0 .. (failure_threshold - 1)
    /\ last_failure_time = IF failure_count = 0 THEN "None" ELSE "Recent"

\* the urls a request can carry: a web page, a url of another scheme and
\* a string that is no url
Urls == {"https://example.com", "ftp://example.com", "not a url"}

\* enum Priority
Priorities == {"Low", "Normal", "High", "Critical"}

\* ScreenshotRequest::default() but for the url: Priority::default()
DefaultRequests ==
    /\ request_url = [t \in Tasks |-> "https://example.com"]
    /\ request_priority = [t \in Tasks |-> "Normal"]

\* requests of the default priority for a web page or for a string that
\* is no url
ParsedOrNot ==
    /\ request_url \in [Tasks -> {"https://example.com", "not a url"}]
    /\ request_priority = [t \in Tasks |-> "Normal"]

\* requests of the default priority with any url
AnyUrl ==
    /\ request_url \in [Tasks -> Urls]
    /\ request_priority = [t \in Tasks |-> "Normal"]

\* requests for a web page with any priorities
AnyPriority ==
    /\ request_url = [t \in Tasks |-> "https://example.com"]
    /\ request_priority \in [Tasks -> Priorities]

\* ScreenshotService::new: no call in progress
NoCalls ==
    /\ call_pc = [k \in Calls |-> "idle"]
    /\ call_tasks = [k \in Calls |-> {}]
    /\ call_ret = [k \in Calls |-> "None"]
    /\ semaphore = [k \in Calls |-> 0]
    /\ task_pc = [t \in Tasks |-> "none"]
    /\ task_attempt = [t \in Tasks |-> 0]
    /\ invocations = [t \in Tasks |-> 0]
    /\ last_error = [t \in Tasks |-> "None"]
    /\ task_out = [t \in Tasks |-> "None"]

\* no process_requests call whose order is followed
NoSort ==
    /\ requests = <<>>
    /\ sorted_requests = <<>>
    /\ returned = <<>>
    /\ sort_ret = "None"
    /\ sort_pc = "idle"

\* process_requests is called with up to MaxCallRequests requests of any
\* priorities
AnyCall ==
    /\ requests \in UNION {[1 .. n -> Priorities] : n \in 0 .. MaxCallRequests}
    /\ sorted_requests = <<>>
    /\ returned = <<>>
    /\ sort_ret = "None"
    /\ sort_pc = "called"

Workers == 1 .. PoolSize

\* WorkerPool::new: empty channels, every worker about to lock the receiver
InitBatch ==
    /\ request_chan = <<>>
    /\ result_chan = <<>>
    /\ receiver_lock = NoTask
    /\ worker_pc = [w \in Workers |-> "lock"]
    /\ worker_item = [w \in Workers |-> <<>>]
    /\ batch_pc = "idle"
    /\ total_requests = 0
    /\ submitted = 0
    /\ results = <<>>

\* no MemoryMonitor in use: one of the largest size, never updated
NoMonitor ==
    /\ max_memory = MaxMemory
    /\ current_usage = 0
    /\ memory_status = "None"

Acquirers == 1 .. NumAcquirers

\* RateLimiter::new: no request recorded, no call in progress
NoLimiter ==
    /\ clock = 0
    /\ request_times = <<>>
    /\ acq_pc = [t \in Acquirers |-> "idle"]
    /\ acq_now = [t \in Acquirers |-> 0]
    /\ acq_ret = [t \in Acquirers |-> "None"]
    /\ current_rate = 0
    /\ acquire_calls = 0
    /\ granted = <<>>

\* no result being saved
NoFile ==
    /\ result_url = <<"https://", "example.com">>
    /\ result_format = "Png"
    /\ filename = <<>>

NoScan ==
    /\ over_age = {}
    /\ over_idle = {}
    /\ warned = {}

\* no ProgressTracker (it is made by run_batch, cli.rs:279)
NoInfo == [total |-> 0, completed |-> 0, errors |-> 0, success |-> 0,
           underflow |-> FALSE]

NoProgress ==
    /\ total = 0
    /\ completed = 0
    /\ errors = 0
    /\ rec_pc = [r \in 1 .. NumRecorders |-> "idle"]
    /\ rec_calls = 0
    /\ rd_pc = "idle"
    /\ rd_completed = 0
    /\ rd_errors = 0
    /\ progress_info = NoInfo

\* no batch has been run
NoResults ==
    /\ batch_urls = <<>>
    /\ batch_format = "Png"
    /\ files = {}
    /\ saved = 0

\* the pool is built and no task is in one of its operations
NoLocks ==
    /\ instances_lock = NoTask
    /\ available_lock = NoTask
    /\ lk_pc = [t \in 1 .. NumLockTasks + 1 |->
                  IF t = NumLockTasks + 1 THEN "built" ELSE "idle"]
    /\ lk_op = [t \in 1 .. NumLockTasks + 1 |-> "none"]

NoUtil ==
    /\ NoMonitor /\ NoLimiter /\ NoFile /\ NoScan /\ NoProgress /\ NoResults
    /\ NoLocks

Init ==
    /\ InitPool
    /\ NewBreaker /\ NoAttempts
    /\ DefaultRequests /\ NoCalls /\ NoSort
    /\ InitBatch
    /\ NoUtil

InitSort ==
    /\ InitPool
    /\ NewBreaker /\ NoAttempts
    /\ DefaultRequests /\ NoCalls /\ AnyCall
    /\ InitBatch
    /\ NoUtil

InitService ==
    /\ InitPool
    /\ UsedBreaker /\ NoAttempts
    /\ ParsedOrNot /\ NoCalls /\ NoSort
    /\ InitBatch
    /\ NoUtil

InitPriority ==
    /\ InitPool
    /\ NewBreaker /\ NoAttempts
    /\ AnyPriority /\ NoCalls /\ NoSort
    /\ InitBatch
    /\ NoUtil

InitUrl ==
    /\ InitPool
    /\ NewBreaker /\ NoAttempts
    /\ AnyUrl /\ NoCalls /\ NoSort
    /\ InitBatch
    /\ NoUtil

\* ---------------------------------------------------------------- get_browser
\* a get_browser that does not look at the flag
flag_not_loaded == FALSE

\* line 239: is_shutting_down.load(Relaxed)
load_is_shutting_down == is_shutting_down

\* lines 239-241: the shutdown check
GetBrowserCheck(c) ==
    /\ UNCHANGED <<svcVars, batchVars, utilVars, closes>>
    /\ pc[c] = "idle"
    /\ IF load_is_shutting_down
       THEN /\ pc' = [pc EXCEPT ![c] = "done"]
            /\ result' = [result EXCEPT ![c] = "BrowserUnavailable"]
       ELSE /\ pc' = [pc EXCEPT ![c] = "acquire"]
            /\ result' = result
    /\ UNCHANGED <<status, alive, drained, available, permits,
                   is_shutting_down, instLock, browserLock, returning,
                   attempt, target, lease, stale, holdsPermit,
                   restart_list, retries, drain_idx>>

\* line 244: self.semaphore.acquire().await
AcquirePermit(c) ==
    /\ UNCHANGED <<svcVars, batchVars, utilVars, closes>>
    /\ pc[c] = "acquire"
    /\ permits > 0
    /\ permits' = permits - 1
    /\ holdsPermit' = [holdsPermit EXCEPT ![c] = TRUE]
    /\ attempt' = [attempt EXCEPT ![c] = 0]
    /\ pc' = [pc EXCEPT ![c] = "pop"]
    /\ UNCHANGED <<status, alive, drained, available, is_shutting_down,
                   instLock, browserLock, returning, target, lease, stale,
                   result, restart_list, retries, drain_idx>>

\* lines 249-253: pop_front under the available lock; `?` on an empty queue
\* returns BrowserUnavailable and drops _permit
PopAvailable(c) ==
    /\ UNCHANGED <<svcVars, batchVars, utilVars, closes>>
    /\ pc[c] = "pop"
    /\ IF available = <<>>
       THEN /\ pc' = [pc EXCEPT ![c] = "done"]
            /\ result' = [result EXCEPT ![c] = "BrowserUnavailable"]
            /\ permits' = permits + 1
            /\ holdsPermit' = [holdsPermit EXCEPT ![c] = FALSE]
            /\ UNCHANGED <<available, target>>
       ELSE /\ target' = [target EXCEPT ![c] = Head(available)]
            /\ available' = pop_front(available)
            /\ pc' = [pc EXCEPT ![c] = "inspect"]
            /\ UNCHANGED <<result, permits, holdsPermit>>
    /\ UNCHANGED <<status, alive, drained, is_shutting_down, instLock,
                   browserLock, returning, attempt, lease, stale,
                   restart_list, retries, drain_idx>>

\* lines 255-263, 280-289: lock instances, get_mut, health test; a healthy
\* instance is marked used and the handle returned (the guard and _permit
\* are dropped on return); an unhealthy one sends the call, still holding
\* the instances guard, into restart_instance_internal
Inspect(c) ==
    /\ UNCHANGED <<svcVars, batchVars, utilVars, closes>>
    /\ pc[c] = "inspect"
    /\ instLock = NoTask
    /\ IF drained
       THEN /\ pc' = [pc EXCEPT ![c] = "done"]
            /\ result' = [result EXCEPT ![c] = "BrowserUnavailable"]
            /\ permits' = permits + 1
            /\ holdsPermit' = [holdsPermit EXCEPT ![c] = FALSE]
            /\ target' = [target EXCEPT ![c] = NoId]
            /\ UNCHANGED <<status, lease, stale, instLock>>
       ELSE IF is_healthy(target[c]) /\ alive[target[c]]
       THEN /\ status' = mark_used(status, target[c])
            /\ lease' = [lease EXCEPT ![c] = target[c]]
            /\ stale' = [stale EXCEPT ![c] = FALSE]
            /\ permits' = permits + 1
            /\ holdsPermit' = [holdsPermit EXCEPT ![c] = FALSE]
            /\ target' = [target EXCEPT ![c] = NoId]
            /\ pc' = [pc EXCEPT ![c] = "leased"]
            /\ UNCHANGED <<result, instLock>>
       ELSE /\ instLock' = c
            /\ pc' = [pc EXCEPT ![c] = "restart_lock"]
            /\ UNCHANGED <<status, lease, stale, permits, holdsPermit, result,
                           target>>
    /\ UNCHANGED <<alive, drained, available, is_shutting_down, browserLock,
                   returning, attempt, restart_list, retries, drain_idx>>

\* ---------------------------------------------------------------- restart
\* What the caller of restart_instance_internal does with its result.
\* deep_health_check (lines 431-435) logs and goes on to the next id;
\* get_browser (lines 267-297) marks the instance used and returns the
\* handle, or pushes the id back and tries again / returns the error.
RestartReturn(t, ok, err, st) ==
    IF t = HealthTask
    THEN /\ restart_list' = Tail(restart_list)
         /\ target' = [target EXCEPT ![t] =
                IF Tail(restart_list) = <<>> THEN NoId
                ELSE Head(Tail(restart_list))]
         /\ pc' = [pc EXCEPT ![t] =
                IF Tail(restart_list) = <<>> THEN "loop" ELSE "restart_lock"]
         /\ status' = st
         /\ instLock' = NoTask
         /\ UNCHANGED <<available, permits, holdsPermit, lease, result,
                        attempt>>
    ELSE /\ UNCHANGED restart_list
         /\ target' = [target EXCEPT ![t] = NoId]
         /\ instLock' = NoTask
         /\ IF ok
            THEN /\ status' = mark_used(st, target[t])
                 /\ lease' = [lease EXCEPT ![t] = target[t]]
                 /\ permits' = permits + 1
                 /\ holdsPermit' = [holdsPermit EXCEPT ![t] = FALSE]
                 /\ pc' = [pc EXCEPT ![t] = "leased"]
                 /\ UNCHANGED <<available, result, attempt>>
            ELSE /\ status' = st
                 /\ available' = Append(available, target[t])
                 /\ lease' = lease
                 /\ IF attempt[t] < 2
                    THEN /\ attempt' = [attempt EXCEPT ![t] = @ + 1]
                         /\ pc' = [pc EXCEPT ![t] = "pop"]
                         /\ UNCHANGED <<permits, holdsPermit, result>>
                    ELSE /\ pc' = [pc EXCEPT ![t] = "done"]
                         /\ result' = [result EXCEPT ![t] = err]
                         /\ permits' = permits + 1
                         /\ holdsPermit' = [holdsPermit EXCEPT ![t] = FALSE]
                         /\ attempt' = attempt

\* lines 337-340: self.instances.lock().await, then status = Restarting;
\* an id that is no longer in the vector gives BrowserUnavailable
RestartLock(t) ==
    /\ UNCHANGED <<svcVars, batchVars, utilVars, closes>>
    /\ pc[t] = "restart_lock"
    /\ instLock = NoTask
    /\ IF drained
       THEN RestartReturn(t, FALSE, "BrowserUnavailable", status)
       ELSE /\ instLock' = t
            /\ status' = [status EXCEPT ![target[t]] = "Restarting"]
            /\ pc' = [pc EXCEPT ![t] = "restart_close"]
            /\ UNCHANGED <<available, permits, holdsPermit, lease, result,
                           attempt, restart_list, target>>
    /\ UNCHANGED <<alive, drained, is_shutting_down, browserLock, returning,
                   stale, retries, drain_idx>>

\* lines 343-344: instance.browser.lock().await.close().await, then
\* handler.abort(); the instances guard stays held
RestartClose(t) ==
    /\ UNCHANGED <<svcVars, batchVars, utilVars, closes>>
    /\ pc[t] = "restart_close"
    /\ browserLock[target[t]] = NoTask
    /\ alive' = [alive EXCEPT ![target[t]] = FALSE]
    /\ pc' = [pc EXCEPT ![t] = "restart_launch"]
    /\ UNCHANGED <<status, drained, available, permits, is_shutting_down,
                   instLock, browserLock, returning, attempt, target, lease,
                   stale, holdsPermit, result, restart_list, retries,
                   drain_idx>>

\* lines 347-358: create_browser_instance; on success *instance is the new
\* instance (Healthy, live handler, a new browser and mutex), on failure
\* status = Failed; the guard is dropped on return
RestartLaunch(t) ==
    /\ UNCHANGED <<svcVars, batchVars, utilVars, closes>>
    /\ pc[t] = "restart_launch"
    /\ \E ok \in BOOLEAN :
        /\ IF ok
           THEN /\ alive' = [alive EXCEPT ![target[t]] = TRUE]
                /\ browserLock' = [browserLock EXCEPT ![target[t]] = NoTask]
                /\ stale' = [c \in Callers |->
                                stale[c] \/ lease[c] = target[t]]
                /\ RestartReturn(t, TRUE, "None",
                        [status EXCEPT ![target[t]] = "Healthy"])
           ELSE /\ UNCHANGED <<alive, browserLock, stale>>
                /\ RestartReturn(t, FALSE, "BrowserLaunchFailed",
                        [status EXCEPT ![target[t]] = "Failed"])
    /\ UNCHANGED <<drained, is_shutting_down, returning, retries, drain_idx>>

\* ---------------------------------------------------------------- take_screenshot
\* line 179: browser_handle.browser.lock().await
LockBrowser(c) ==
    /\ UNCHANGED <<svcVars, batchVars, utilVars, closes>>
    /\ pc[c] = "leased"
    /\ stale[c] \/ browserLock[lease[c]] = NoTask
    /\ browserLock' = IF stale[c] THEN browserLock
                      ELSE [browserLock EXCEPT ![lease[c]] = c]
    /\ pc' = [pc EXCEPT ![c] = "page"]
    /\ UNCHANGED <<status, alive, drained, available, permits,
                   is_shutting_down, instLock, returning, attempt, target,
                   lease, stale, holdsPermit, result, restart_list, retries,
                   drain_idx>>

\* the function returns: the browser guard and then the handle are dropped
Return(c, r) ==
    /\ browserLock' = Unlock(browserLock, c)
    /\ returning' = DropHandle(returning, lease[c])
    /\ lease' = [lease EXCEPT ![c] = NoId]
    /\ stale' = [stale EXCEPT ![c] = FALSE]
    /\ result' = [result EXCEPT ![c] = r]
    /\ pc' = [pc EXCEPT ![c] = "done"]

\* lines 180-181: browser.new_page(url); an error returns PageError
NewPage(c) ==
    /\ UNCHANGED <<svcVars, batchVars, utilVars, closes>>
    /\ pc[c] = "page"
    /\ \/ /\ pc' = [pc EXCEPT ![c] = "capture"]
          /\ UNCHANGED <<browserLock, returning, lease, stale, result>>
       \/ Return(c, "PageError")
    /\ UNCHANGED <<status, alive, drained, available, permits,
                   is_shutting_down, instLock, attempt, target, holdsPermit,
                   restart_list, retries, drain_idx>>

\* lines 183-193: capture_screenshot_with_timeout, page.close, return
CaptureOutcomes ==
    {"Ok", "PageError", "Timeout", "ElementNotFound", "CaptureFailed"}

Capture(c) ==
    /\ UNCHANGED <<svcVars, batchVars, utilVars, closes>>
    /\ pc[c] = "capture"
    /\ \E r \in CaptureOutcomes : Return(c, r)
    /\ UNCHANGED <<status, alive, drained, available, permits,
                   is_shutting_down, instLock, attempt, target, holdsPermit,
                   restart_list, retries, drain_idx>>

\* the caller issues its next take_screenshot
NextRequest(c) ==
    /\ UNCHANGED <<svcVars, batchVars, utilVars, closes>>
    /\ pc[c] = "done"
    /\ pc' = [pc EXCEPT ![c] = "idle"]
    /\ result' = [result EXCEPT ![c] = "None"]
    /\ UNCHANGED <<status, alive, drained, available, permits,
                   is_shutting_down, instLock, browserLock, returning,
                   attempt, target, lease, stale, holdsPermit, restart_list,
                   retries, drain_idx>>

\* ---------------------------------------------------------------- return_browser
\* lines 303-311, run by the task the handle's drop spawned
return_browser(i) ==
    /\ UNCHANGED <<svcVars, batchVars, utilVars, closes>>
    /\ returning[i] > 0
    /\ instLock = NoTask
    /\ returning' = [returning EXCEPT ![i] = @ - 1]
    /\ IF drained
       THEN UNCHANGED <<status, available>>
       ELSE /\ status' = mark_available(status, i)
            /\ available' = Append(available, i)
    /\ UNCHANGED <<alive, drained, permits, is_shutting_down, instLock,
                   browserLock, pc, attempt, target, lease, stale,
                   holdsPermit, result, restart_list, retries, drain_idx>>

\* ---------------------------------------------------------------- health check
\* line 373: the loop of start_health_check_task tests the flag
HealthLoop ==
    /\ UNCHANGED <<svcVars, batchVars, utilVars, closes>>
    /\ pc[HealthTask] = "loop"
    /\ pc' = [pc EXCEPT ![HealthTask] =
                IF is_shutting_down THEN "exited" ELSE "tick"]
    /\ UNCHANGED <<status, alive, drained, available, permits,
                   is_shutting_down, instLock, browserLock, returning,
                   attempt, target, lease, stale, holdsPermit, result,
                   restart_list, retries, drain_idx>>

\* line 69: failure_count is 0 in every instance created; mark_failed
\* (lines 83-86), its only writer, has no caller
instance_failure_count(i) == 0

\* lines 410-419, the clock readings being inputs: aged is the set of
\* instances with age() > 1 h, idle those with idle_time() > 10 min
needs_restart_when_aged(i, aged, idle) ==
    \/ i \in aged
    \/ instance_failure_count(i) > 10
    \/ ~alive[i]

needs_restart(i, aged, idle) ==
    \/ i \in aged
    \/ instance_failure_count(i) > 10
    \/ ~alive[i]
    \/ (i \in idle /\ status[i] = "Busy")

\* lines 405-428: the scan under the instances lock
deep_health_check_at(aged, idle) ==
    /\ UNCHANGED <<svcVars, batchVars, utilVars, closes>>
    /\ pc[HealthTask] = "tick"
    /\ instLock = NoTask
    /\ LET list == IF drained THEN <<>>
                   ELSE SortedSeq({i \in Ids : needs_restart(i, aged, idle)})
       IN /\ restart_list' = list
          /\ target' = [target EXCEPT ![HealthTask] =
                          IF list = <<>> THEN NoId ELSE Head(list)]
          /\ pc' = [pc EXCEPT ![HealthTask] =
                          IF list = <<>> THEN "loop" ELSE "restart_lock"]
    /\ UNCHANGED <<status, alive, drained, available, permits,
                   is_shutting_down, instLock, browserLock, returning,
                   attempt, lease, stale, holdsPermit, result, retries,
                   drain_idx>>

\* lines 92-98: age() and idle_time() read the clock, whatever it shows
deep_health_check ==
    \E aged \in SUBSET Ids, idle \in SUBSET Ids :
        deep_health_check_at(aged, idle)

\* ---------------------------------------------------------------- shutdown
\* lines 439-443
ShutdownStart(s) ==
    /\ UNCHANGED <<svcVars, batchVars, utilVars, closes>>
    /\ pc[s] = "running"
    /\ is_shutting_down' = TRUE
    /\ retries' = [retries EXCEPT ![s] = 0]
    /\ pc' = [pc EXCEPT ![s] = "poll"]
    /\ UNCHANGED <<status, alive, drained, available, permits, instLock,
                   browserLock, returning, attempt, target, lease, stale,
                   holdsPermit, result, restart_list, drain_idx>>

\* lines 444-452: one turn of the wait loop
ShutdownPoll(s) ==
    /\ UNCHANGED <<svcVars, batchVars, utilVars, closes>>
    /\ pc[s] = "poll"
    /\ IF retries[s] < MaxShutdownRetries /\ Len(available) # PoolSize
       THEN /\ retries' = [retries EXCEPT ![s] = @ + 1]
            /\ pc' = pc
       ELSE /\ pc' = [pc EXCEPT ![s] = "drain_lock"]
            /\ retries' = retries
    /\ UNCHANGED <<status, alive, drained, available, permits,
                   is_shutting_down, instLock, browserLock, returning,
                   attempt, target, lease, stale, holdsPermit, result,
                   restart_list, drain_idx>>

\* lines 455-456 with the vector taken for full whatever an earlier call
\* has drained
ShutdownLock_drains_again(s) ==
    /\ UNCHANGED <<svcVars, batchVars, utilVars, closes>>
    /\ pc[s] = "drain_lock"
    /\ instLock = NoTask
    /\ drain_idx' = 0
    /\ retries' = [retries EXCEPT ![s] = 0]
    /\ instLock' = s
    /\ pc' = [pc EXCEPT ![s] = "drain"]
    /\ UNCHANGED <<status, alive, drained, available, permits,
                   is_shutting_down, browserLock, returning, attempt, target,
                   lease, stale, holdsPermit, result, restart_list>>

\* lines 455-456: self.instances.lock().await and instances.drain(..); the
\* loop over a vector an earlier call has drained has no turn, and the
\* guard is released at once
ShutdownLock(s) ==
    /\ UNCHANGED <<svcVars, batchVars, utilVars, closes>>
    /\ pc[s] = "drain_lock"
    /\ instLock = NoTask
    /\ drain_idx' = 0
    /\ retries' = [retries EXCEPT ![s] = 0]
    /\ IF drained
       THEN /\ instLock' = NoTask
            /\ pc' = [pc EXCEPT ![s] = "done"]
       ELSE /\ instLock' = s
            /\ pc' = [pc EXCEPT ![s] = "drain"]
    /\ UNCHANGED <<status, alive, drained, available, permits,
                   is_shutting_down, browserLock, returning, attempt, target,
                   lease, stale, holdsPermit, result, restart_list>>

\* lines 456-458 and 100-103: instance.shutdown() of the next drained
\* instance (lock its browser, close, abort the handler); after the last
\* one the vector is empty (its instances are "Dropped") and the guard is
\* released
ShutdownClose(s) ==
    /\ UNCHANGED <<svcVars, batchVars, utilVars>>
    /\ pc[s] = "drain"
    /\ browserLock[drain_idx] = NoTask
    /\ alive' = [alive EXCEPT ![drain_idx] = FALSE]
    /\ closes' = [closes EXCEPT ![drain_idx] = @ + 1]
    /\ IF drain_idx + 1 = PoolSize
       THEN /\ drained' = TRUE
            /\ status' = [i \in Ids |-> "Dropped"]
            /\ instLock' = NoTask
            /\ pc' = [pc EXCEPT ![s] = "done"]
            /\ drain_idx' = 0
       ELSE /\ drain_idx' = drain_idx + 1
            /\ UNCHANGED <<drained, status, instLock, pc>>
    /\ UNCHANGED <<available, permits, is_shutting_down, browserLock,
                   returning, attempt, target, lease, stale, holdsPermit,
                   result, restart_list, retries>>

\* ---------------------------------------------------------------- environment
\* the browser process dies: its handler task ends (lines 214-233)
HandlerCrash(i) ==
    /\ UNCHANGED <<svcVars, batchVars, utilVars, closes>>
    /\ ~drained
    /\ alive[i]
    /\ alive' = [alive EXCEPT ![i] = FALSE]
    /\ UNCHANGED <<status, drained, available, permits, is_shutting_down,
                   instLock, browserLock, returning, pc, attempt, target,
                   lease, stale, holdsPermit, result, restart_list, retries,
                   drain_idx>>

\* ---------------------------------------------------------------- SpecPool
CallerStep(c) ==
    \/ GetBrowserCheck(c)
    \/ AcquirePermit(c)
    \/ PopAvailable(c)
    \/ Inspect(c)
    \/ LockBrowser(c)
    \/ NewPage(c)
    \/ Capture(c)
    \/ NextRequest(c)

RestartStep(t) ==
    \/ RestartLock(t)
    \/ RestartClose(t)
    \/ RestartLaunch(t)

HealthStep ==
    \/ HealthLoop
    \/ deep_health_check

ShutdownStep(s) ==
    \/ ShutdownStart(s)
    \/ ShutdownPoll(s)
    \/ ShutdownLock(s)
    \/ ShutdownClose(s)

NextPool ==
    \/ \E c \in Callers : CallerStep(c)
    \/ \E t \in RestartTasks : RestartStep(t)
    \/ \E i \in Ids : return_browser(i)
    \/ HealthStep
    \/ ShutdownStep(ShutdownTask)
    \/ \E i \in Ids : HandlerCrash(i)

SpecPool == Init /\ [][NextPool]_vars

\* The tokio runtime runs every task that is ready.  Whether a caller
\* issues another request, whether shutdown is ever called and whether a
\* browser crashes is up to the environment.
CallerRun(c) ==
    \/ GetBrowserCheck(c)
    \/ AcquirePermit(c)
    \/ PopAvailable(c)
    \/ Inspect(c)
    \/ LockBrowser(c)
    \/ NewPage(c)
    \/ Capture(c)

ShutdownRun(s) ==
    \/ ShutdownPoll(s)
    \/ ShutdownLock(s)
    \/ ShutdownClose(s)

FairPool ==
    /\ SpecPool
    /\ \A c \in Callers : WF_vars(CallerRun(c))
    /\ \A t \in RestartTasks : WF_vars(RestartStep(t))
    /\ \A i \in Ids : WF_vars(return_browser(i))
    /\ WF_vars(HealthStep)
    /\ WF_vars(ShutdownRun(ShutdownTask))

\* ---------------------------------------------------------------- pool claims
Leased(i) == \E c \in Callers : lease[c] = i

Leases(i) == {c \in Callers : lease[c] = i}

Occurrences(q, i) == Cardinality({k \in 1 .. Len(q) : q[k] = i})

AllLeased == \A i \in Ids : Leased(i)

\* C1: at any moment at most one BrowserHandle (lease) is outstanding for
\* an instance id, so at most one capture is in flight against a browser.
C1_OneLeasePerInstance ==
    \A i \in Ids : Cardinality(Leases(i)) <= 1

\* a lease is outstanding on an instance the deep health check has
\* restarted meanwhile, and another caller is at the queue
C1_Witness ==
    \E c \in Callers, d \in Callers :
        /\ c # d
        /\ lease[c] # NoId
        /\ stale[c]
        /\ pc[d] = "pop"

\* C2: every lease is eventually released (id back in the queue, instance
\* Healthy) while the pool is not shut down, and no get_browser call keeps
\* its semaphore permit forever.
C2_LeaseAndPermitReleased ==
    /\ \A i \in Ids :
          Leased(i) ~> (is_shutting_down
                        \/ (Occurrences(available, i) > 0
                            /\ status[i] = "Healthy"))
    /\ \A c \in Callers : holdsPermit[c] ~> ~holdsPermit[c]

\* C3: a get_browser call that has popped an unhealthy instance never
\* waits for the instances lock it already holds.
C3_RestartDoesNotSelfBlock ==
    \A c \in Callers : ~(pc[c] = "restart_lock" /\ instLock = c)

\* C4: the available queue contains each instance id at most once.
C4_QueueHasNoDuplicates ==
    \A i \in Ids : Occurrences(available, i) <= 1

\* the id of a finished capture is back and the queue is full again
C4_Witness ==
    /\ Len(available) = PoolSize
    /\ \E c \in Callers : pc[c] = "done" /\ result[c] \in CaptureOutcomes

\* C5: while every instance is leased and the pool is not shutting down,
\* a get_browser call does not return BrowserUnavailable (it waits for a
\* permit, which the leases hold).
C5_BlocksWhileAllLeased ==
    [][\A c \in Callers :
          (AllLeased /\ ~is_shutting_down /\ pc[c] \in {"acquire", "pop"})
              => result'[c] # "BrowserUnavailable"]_vars

\* C20: once shutdown has set the flag, a get_browser call that starts
\* returns BrowserUnavailable at once: it takes no permit and removes no
\* id from the available queue.
C20_RefusedOnceShuttingDown ==
    [][\A c \in Callers :
          (is_shutting_down /\ pc[c] = "idle" /\ pc'[c] # "idle")
              => /\ pc'[c] = "done"
                 /\ result'[c] = "BrowserUnavailable"
                 /\ permits' = permits
                 /\ available' = available
                 /\ ~holdsPermit'[c]
                 /\ lease'[c] = NoId]_vars

\* shutdown is waiting for the leases to come back, nothing is closed, and
\* every caller has been refused while the queue and the permits are full
C20_Witness ==
    /\ is_shutting_down
    /\ pc[ShutdownTask] = "poll"
    /\ ~drained
    /\ Len(available) = PoolSize
    /\ permits = PoolSize
    /\ \A c \in Callers :
          pc[c] = "done" /\ result[c] = "BrowserUnavailable"

\* ---------------------------------------------------------------- SpecShutdown
\* the pool with shutdown called twice while NumShutdownCallers callers
\* take screenshots
ShutdownCallers == 1 .. NumShutdownCallers

NextShutdown ==
    \/ \E c \in ShutdownCallers : CallerStep(c)
    \/ \E t \in RestartTasks : RestartStep(t)
    \/ \E i \in Ids : return_browser(i)
    \/ HealthStep
    \/ \E s \in ShutdownTasks : ShutdownStep(s)
    \/ \E i \in Ids : HandlerCrash(i)

SpecShutdown == Init /\ [][NextShutdown]_vars

\* C21: a second call of shutdown, after or concurrently with the first,
\* is safe: no browser is closed twice, a call that has returned leaves the
\* pool without instances and with the flag set, and once one call has
\* returned the other call, if made, is never blocked: it has nothing to
\* drain, its next step is enabled and its polls are bounded.
C21_SecondShutdownSafe ==
    /\ \A i \in Ids : closes[i] <= 1
    /\ \A s \in ShutdownTasks :
          pc[s] = "done" =>
              /\ drained
              /\ is_shutting_down
              /\ instLock # s
              /\ \A i \in Ids : status[i] = "Dropped" /\ ~alive[i]
              /\ \A t \in ShutdownTasks :
                    /\ pc[t] # "drain"
                    /\ pc[t] \in {"poll", "drain_lock"} =>
                          /\ ENABLED ShutdownRun(t)
                          /\ retries[t] <= MaxShutdownRetries

\* both calls have returned and every browser was closed once
C21_Witness ==
    /\ \A s \in ShutdownTasks : pc[s] = "done"
    /\ \A i \in Ids : closes[i] = 1

\* C22: shutdown never closes the browser of an instance while a lease on
\* it is outstanding, also when its bounded wait has elapsed.
C22_NoCloseWhileLeased ==
    [][\A i \in Ids : closes'[i] > closes[i] => ~Leased(i)]_vars

\* C23: once a lease is held every step of the capture sequence runs under
\* the deadline: wherever the attempt waits for the browser (page open and
\* navigation, or the steps of capture_screenshot) it can end with Timeout
\* without the browser completing the step.
C23_EveryStepUnderDeadline ==
    \A c \in Callers :
        pc[c] \in {"page", "capture"} =>
            ENABLED (CallerStep(c) /\ result'[c] = "Timeout")

\* C24: a capture that fails on a lease whose instance's event-loop task
\* has finished fails with BrowserProcessDied, and the release of that
\* lease leaves the instance Failed, not Healthy.
C24_DeadBrowserMarkedFailed ==
    [][/\ \A c \in Callers :
             (/\ pc[c] \in {"page", "capture"}
              /\ ~stale[c]
              /\ ~alive[lease[c]]
              /\ pc'[c] = "done"
              /\ result'[c] # "Ok") => result'[c] = "BrowserProcessDied"
       /\ \A i \in Ids :
             (/\ returning'[i] < returning[i]
              /\ ~drained
              /\ ~alive[i]) => status'[i] = "Failed"]_vars

\* C25: in every state, for every instance of the pool, the event-loop
\* task is alive exactly when the status is neither Failed nor Restarting.
C25_AliveIffStatus ==
    ~drained =>
        \A i \in Ids : alive[i] <=> status[i] \notin {"Failed", "Restarting"}

\* get_stats, lines 473-476: the instances counted busy
busy_instances == Cardinality({i \in Ids : ~drained /\ status[i] = "Busy"})

\* a lease is outstanding from the grant until return_browser has run for
\* the dropped handle
Outstanding(i) == Leased(i) \/ returning[i] > 0

\* C26: an instance is Busy exactly while a lease on it is outstanding, so
\* busy_instances is the number of instances with an outstanding lease,
\* also when the deep health check restarts instances in between.
C26_BusyIffLeased ==
    ~drained =>
        /\ \A i \in Ids : status[i] = "Busy" <=> Outstanding(i)
        /\ busy_instances = Cardinality({i \in Ids : Outstanding(i)})

InitScan ==
    /\ InitPool
    /\ NewBreaker /\ NoAttempts
    /\ DefaultRequests /\ NoCalls /\ NoSort
    /\ InitBatch
    /\ NoMonitor /\ NoLimiter /\ NoFile /\ NoProgress /\ NoResults
    /\ NoLocks
    /\ over_age \in SUBSET Ids
    /\ over_idle \in SUBSET Ids
    /\ warned = {}

scan == deep_health_check_at(over_age, over_idle)

NextScan ==
    \/ \E c \in ShutdownCallers : CallerStep(c)
    \/ \E t \in RestartTasks : RestartStep(t)
    \/ \E i \in Ids : return_browser(i)
    \/ HealthLoop
    \/ scan
    \/ ShutdownStep(ShutdownTask)
    \/ \E i \in Ids : HandlerCrash(i)

SpecScan == InitScan /\ [][NextScan]_vars

\* the four conditions of the scan, for the instance as the scan finds it
Selected(i) ==
    \/ i \in over_age
    \/ instance_failure_count(i) > 10
    \/ ~alive[i]
    \/ (status[i] = "Busy" /\ i \in over_idle)

Range(s) == {s[k] : k \in 1 .. Len(s)}

\* a step of the health task
HealthTaskMoves ==
    pc'[HealthTask] # pc[HealthTask] \/ restart_list' # restart_list

\* C32: a run of deep_health_check selects exactly the instances that, as
\* the scan finds them, are older than an hour, have more than ten
\* failures, have lost their event loop, or are Busy and idle for more than
\* ten minutes; it restarts the selected instances one after the other, an
\* instance leaves the list only when its restart has returned, and no
\* step of the run changes an instance other than the one being restarted.
C32_RestartsExactlySelected ==
    [][/\ (pc[HealthTask] = "tick" /\ pc'[HealthTask] # "tick" /\ ~drained)
            => /\ Range(restart_list') = {i \in Ids : Selected(i)}
               /\ Len(restart_list') = Cardinality(Range(restart_list'))
               /\ restart_list' # <<>> =>
                      /\ pc'[HealthTask] = "restart_lock"
                      /\ target'[HealthTask] = Head(restart_list')
       /\ (HealthTaskMoves /\ pc[HealthTask] # "tick")
            => /\ \A i \in Ids :
                      (status'[i] # status[i] \/ alive'[i] # alive[i])
                          => restart_list # <<>> /\ i = Head(restart_list)
               /\ restart_list' # restart_list =>
                      /\ restart_list' = Tail(restart_list)
                      /\ \/ drained
                         \/ /\ pc[HealthTask] = "restart_launch"
                            /\ status'[Head(restart_list)]
                                    \in {"Healthy", "Failed"}
               /\ restart_list' # <<>> =>
                      /\ pc'[HealthTask] \in {"restart_lock", "restart_close",
                                              "restart_launch"}
                      /\ target'[HealthTask] = Head(restart_list')]_vars

\* the health task has closed the browser of an instance it selected only
\* for being Busy and idle, and is about to launch its replacement
C32_Witness ==
    \E c \in Callers :
        /\ pc[HealthTask] = "restart_launch"
        /\ restart_list = <<0>>
        /\ lease[c] = 0
        /\ 0 \in over_idle \ over_age

\* ---------------------------------------------------------------- SpecQuick
\* lines 386-402: under the instances lock, a warning for every instance
\* whose handler has finished and for every Busy instance idle for more
\* than 5 min (idle is the set of instances whose idle_time() is above
\* 300 s); nothing is written
quick_health_check_marks_failed ==
    /\ pc[HealthTask] = "tick"
    /\ instLock = NoTask
    /\ \E idle \in SUBSET Ids :
         warned' = {i \in Ids : ~drained /\ (\/ ~alive[i]
                                             \/ (i \in idle /\ status[i] = "Busy"))}
    /\ status' = [i \in Ids |-> IF ~drained /\ ~alive[i] THEN "Failed"
                                 ELSE status[i]]
    /\ pc' = [pc EXCEPT ![HealthTask] = "loop"]
    /\ UNCHANGED <<alive, drained, available, permits, is_shutting_down,
                   instLock, browserLock, returning, attempt, target, lease,
                   stale, holdsPermit, result, restart_list, retries,
                   drain_idx, closes>>
    /\ UNCHANGED <<svcVars, batchVars, memoryVars, rateVars, fileVars,
                   over_age, over_idle, progressVars, pairVars,
                   lockVars>>

quick_health_check ==
    /\ pc[HealthTask] = "tick"
    /\ instLock = NoTask
    /\ \E idle \in SUBSET Ids :
         warned' = {i \in Ids : ~drained /\ (\/ ~alive[i]
                                             \/ (i \in idle /\ status[i] = "Busy"))}
    /\ pc' = [pc EXCEPT ![HealthTask] = "loop"]
    /\ UNCHANGED <<status, alive, drained, available, permits,
                   is_shutting_down, instLock, browserLock, returning,
                   attempt, target, lease, stale, holdsPermit, result,
                   restart_list, retries, drain_idx, closes>>
    /\ UNCHANGED <<svcVars, batchVars, memoryVars, rateVars, fileVars,
                   over_age, over_idle, progressVars, pairVars,
                   lockVars>>

NextQuick ==
    \/ \E c \in Callers : CallerStep(c)
    \/ \E i \in Ids : return_browser(i)
    \/ HealthLoop
    \/ quick_health_check
    \/ ShutdownStep(ShutdownTask)
    \/ \E i \in Ids : HandlerCrash(i)

SpecQuick == Init /\ [][NextQuick]_vars

\* C33: the quick health check only observes: the step in which it goes
\* over the instances changes no instance's status, event loop or browser
\* mutex, nor the available queue, the semaphore, the leases or the count
\* of closed browsers, whatever it has a warning for.
C33_QuickCheckOnlyObserves ==
    [][(pc[HealthTask] = "tick" /\ pc'[HealthTask] # "tick")
          => UNCHANGED <<status, alive, browserLock, available, permits,
                         drained, lease, returning, closes, instLock,
                         is_shutting_down>>]_vars

\* the quick check has just warned about an instance that is leased, Busy
\* and without its event loop
C33_Witness ==
    \E c \in Callers :
        /\ warned = {0}
        /\ pc[HealthTask] = "loop"
        /\ lease[c] = 0
        /\ status[0] = "Busy"
        /\ ~alive[0]

\* ---------------------------------------------------------------- the two locks
\* the awaits on a browser: closing it, launching its replacement and
\* waiting for its own mutex (lines 343-347 and 100-103)
AtBrowserAwait(t) == pc[t] \in {"restart_close", "restart_launch", "drain"}

\* C34: the instances lock is never held across an await on a browser
\* operation: no task is about to close a browser, to launch one or to
\* wait for a browser's mutex while it holds the lock.
C34_LockFreeAtBrowserAwait ==
    \A t \in RestartTasks \cup ShutdownTasks :
        AtBrowserAwait(t) => instLock # t

\* lines 249-253: the get_browser calls that have popped id i and not yet
\* returned
Popped(i) == {c \in Callers : target[c] = i}

\* the number of places that hold id i: the queue, the handles, the spawned
\* return tasks and the get_browser calls
Places(i) ==
    Occurrences(available, i) + Cardinality(Leases(i)) + returning[i]
        + Cardinality(Popped(i))

\* lines 266-267: the call waits for the instances lock it holds itself
WaitsForOwnLock(c) == pc[c] = "restart_lock" /\ instLock = c

\* C35: before shutdown no instance id is lost: every id is in exactly one
\* of the available queue, an outstanding handle, a spawned return task
\* that has not run, or a get_browser call that has popped it, and such a
\* call is not stuck with it, so no lease capacity is lost for good.
C35_NoIdLost ==
    ~is_shutting_down =>
        \A i \in Ids :
            /\ Places(i) = 1
            /\ \A c \in Popped(i) : ~WaitsForOwnLock(c)

\* C36: when a capture attempt returns to its caller, the instance it
\* leased is back in the available queue already, and no get_browser call
\* finds the queue empty (BrowserUnavailable) while a spawned return task
\* has still to run.
C36_ReturnedBeforeCallerGoesOn ==
    [][\A c \in Callers :
          /\ (lease[c] # NoId /\ lease'[c] = NoId /\ ~is_shutting_down)
                => Occurrences(available', lease[c]) = 1
          /\ (pc[c] = "pop" /\ result'[c] = "BrowserUnavailable"
                  /\ ~is_shutting_down)
                => \A i \in Ids : returning[i] = 0]_vars

\* ---------------------------------------------------------------- SpecLocks
\* Every `lock().await` of BrowserPool is a step of its own, and so is the
\* code that runs under the guards it has taken.  What that code finds
\* (an empty queue, an unhealthy instance, a failed launch) is an input.
\* The last task runs BrowserPool::new; the others use the pool once it is
\* built.
Constructor == NumLockTasks + 1

LockTasks == 1 .. NumLockTasks

PoolOps ==
    {"get_browser", "return_browser", "get_stats", "health_check",
     "restart_instance", "shutdown"}

\* the first lock of each operation: get_browser line 250, return_browser
\* 304, get_stats 464, the public, the quick and the deep health check
\* 314, 387 and 406, restart_instance 337, shutdown 445
FirstLock(op) ==
    CASE op = "get_browser" -> "pop_available"
      [] op = "return_browser" -> "return_instances"
      [] op = "get_stats" -> "stats_instances"
      [] op = "health_check" -> "check_instances"
      [] op = "restart_instance" -> "restart_instances"
      [] op = "shutdown" -> "poll_available"

\* the positions at self.instances.lock().await: lines 161, 256, 304, 314
\* (387, 406), 337, 455, 464
InstancesWaits ==
    {"init_instances", "get_instances", "return_instances",
     "check_instances", "restart_instances", "drain_instances",
     "stats_instances"}

\* the positions at self.available.lock().await: lines 162, 250, 276, 305,
\* 445, 465
AvailableWaits ==
    {"init_available", "pop_available", "push_available",
     "return_available", "poll_available", "stats_available"}

\* where the task is once it has the lock it waited for
AfterLock(p) ==
    CASE p = "init_instances" -> "init_available"
      [] p = "init_available" -> "init_launch"
      [] p = "pop_available" -> "pop"
      [] p = "get_instances" -> "inspect"
      [] p = "push_available" -> "push_back"
      [] p = "return_instances" -> "return_available"
      [] p = "return_available" -> "mark_available"
      [] p = "check_instances" -> "scan"
      [] p = "restart_instances" -> "restart"
      [] p = "poll_available" -> "poll"
      [] p = "drain_instances" -> "drain"
      [] p = "stats_instances" -> "stats_available"
      [] p = "stats_available" -> "count"

\* where the code under the guards can go next:
\*   init_launch  lines 164-185, the pool is built or new returns the error
\*   pop          lines 251-252, an id or `?` on the empty queue
\*   inspect      lines 257-283, get_mut missing, healthy, or unhealthy and
\*                into restart_instance_internal
\*   restart      lines 338-361; back in get_browser (lines 268-278) Ok
\*                returns the handle, Err pushes the id back; the deep
\*                health check goes on with its list
\*   push_back    lines 276-277 and 291-297, the next attempt or the error
\*   scan         lines 387-401 and 406-435, the deep check restarts what
\*                it listed
\*   poll         lines 445-451, the next poll or the drain
AfterBody(p, op) ==
    CASE p = "init_launch" -> {"built", "failed"}
      [] p = "pop" -> {"idle", "get_instances"}
      [] p = "inspect" -> {"idle", "restart_instances"}
      [] p = "restart" ->
            IF op = "get_browser" THEN {"idle", "push_available"}
            ELSE IF op = "health_check" THEN {"idle", "restart_instances"}
            ELSE {"idle"}
      [] p = "push_back" -> {"idle", "pop_available"}
      [] p = "mark_available" -> {"idle"}
      [] p = "scan" -> {"idle", "restart_instances"}
      [] p = "poll" -> {"poll_available", "drain_instances"}
      [] p = "drain" -> {"idle"}
      [] p = "count" -> {"idle"}

Bodies ==
    {"init_launch", "pop", "inspect", "restart", "push_back",
     "mark_available", "scan", "poll", "drain", "count"}

\* the guard of `instances` that get_browser took at line 256 lives to the
\* end of its block (line 284), across restart_instance_internal and the
\* push_back; every other guard of `instances` is dropped where the code
\* under it ends
KeepsInstances(p, next) ==
    \/ p = "inspect" /\ next = "restart_instances"
    \/ p = "restart" /\ next = "push_available"

\* the guards of `available` are temporaries or locals of a block without
\* an await after them (lines 249-253, 276, 305-310, 445, 465-489)
KeepsAvailable_past_pop(p, next) == p = "pop" /\ next = "get_instances"

KeepsAvailable(p, next) == FALSE

\* a task calls an operation of the pool
call(t, op) ==
    /\ lk_pc[Constructor] = "built"
    /\ lk_pc[t] = "idle"
    /\ lk_pc' = [lk_pc EXCEPT ![t] = FirstLock(op)]
    /\ lk_op' = [lk_op EXCEPT ![t] = op]
    /\ UNCHANGED <<instances_lock, available_lock>>
    /\ UNCHANGED <<memoryVars, rateVars, fileVars, scanVars, progressVars,
                   pairVars, poolVars, svcVars, batchVars>>

\* self.instances.lock().await
lock_instances(t) ==
    /\ lk_pc[t] \in InstancesWaits
    /\ instances_lock = NoTask
    /\ instances_lock' = t
    /\ lk_pc' = [lk_pc EXCEPT ![t] = AfterLock(lk_pc[t])]
    /\ UNCHANGED <<available_lock, lk_op>>
    /\ UNCHANGED <<memoryVars, rateVars, fileVars, scanVars, progressVars,
                   pairVars, poolVars, svcVars, batchVars>>

\* self.available.lock().await
lock_available(t) ==
    /\ lk_pc[t] \in AvailableWaits
    /\ available_lock = NoTask
    /\ available_lock' = t
    /\ lk_pc' = [lk_pc EXCEPT ![t] = AfterLock(lk_pc[t])]
    /\ UNCHANGED <<instances_lock, lk_op>>
    /\ UNCHANGED <<memoryVars, rateVars, fileVars, scanVars, progressVars,
                   pairVars, poolVars, svcVars, batchVars>>

\* the code under the guards runs to its end, or to its next await
runs(t) ==
    /\ lk_pc[t] \in Bodies
    /\ \E next \in AfterBody(lk_pc[t], lk_op[t]) :
         /\ lk_pc' = [lk_pc EXCEPT ![t] = next]
         /\ lk_op' = [lk_op EXCEPT ![t] = IF next = "idle" THEN "none" ELSE @]
         /\ instances_lock' =
                IF instances_lock = t /\ ~KeepsInstances(lk_pc[t], next)
                THEN NoTask ELSE instances_lock
         /\ available_lock' =
                IF available_lock = t /\ ~KeepsAvailable(lk_pc[t], next)
                THEN NoTask ELSE available_lock
    /\ UNCHANGED <<memoryVars, rateVars, fileVars, scanVars, progressVars,
                   pairVars, poolVars, svcVars, batchVars>>

NextLocks ==
    \/ \E t \in LockTasks, op \in PoolOps : call(t, op)
    \/ \E t \in {Constructor} \cup LockTasks : lock_instances(t)
    \/ \E t \in {Constructor} \cup LockTasks : lock_available(t)
    \/ \E t \in {Constructor} \cup LockTasks : runs(t)

\* BrowserPool::new has made the two mutexes (lines 143-149) and calls
\* initialize_instances
InitLocks ==
    /\ InitPool
    /\ NewBreaker /\ NoAttempts
    /\ DefaultRequests /\ NoCalls /\ NoSort
    /\ InitBatch
    /\ NoMonitor /\ NoLimiter /\ NoFile /\ NoScan /\ NoProgress /\ NoResults
    /\ instances_lock = NoTask
    /\ available_lock = NoTask
    /\ lk_pc = [t \in 1 .. NumLockTasks + 1 |->
                  IF t = Constructor THEN "init_instances" ELSE "idle"]
    /\ lk_op = [t \in 1 .. NumLockTasks + 1 |-> "none"]

SpecLocks == InitLocks /\ [][NextLocks]_vars

\* C39: the two locks are always taken in the same order: no task waits
\* for the instances lock while it holds the available-queue lock, so no
\* two tasks wait for each other, one holding `instances` and waiting for
\* `available`, the other holding `available` and waiting for `instances`.
C39_InstancesBeforeAvailable ==
    /\ \A t \in {Constructor} \cup LockTasks :
          lk_pc[t] \in InstancesWaits => available_lock # t
    /\ ~\E t, u \in {Constructor} \cup LockTasks :
          /\ instances_lock = t /\ lk_pc[t] \in AvailableWaits
          /\ available_lock = u /\ lk_pc[u] \in InstancesWaits

\* return_browser holds `instances` and waits for `available`, which a
\* get_browser call holds for its pop_front
C39_Witness ==
    \E t, u \in LockTasks :
        /\ instances_lock = t /\ lk_pc[t] = "return_available"
        /\ available_lock = u /\ lk_pc[u] = "pop"

\* ================================================================ service
\* ScreenshotError::is_retryable (error.rs:60-70)
RetryableErrors ==
    {"BrowserUnavailable", "UrlLoadFailed", "NetworkError", "Timeout",
     "PageError", "BrowserProcessDied"}

is_retryable(e) == e \in RetryableErrors

\* what take_screenshot returns: Ok, InvalidUrl (line 171), an error of
\* get_browser (line 175), PageError (line 181) or an error of the capture
\* (Timeout line 207, PageError, ElementNotFound line 316, CaptureFailed)
TakeScreenshotOutcomes ==
    {"Ok", "InvalidUrl", "BrowserUnavailable", "PageError", "Timeout",
     "ElementNotFound", "CaptureFailed"}

\* url::Url::parse: the scheme of the parsed url, or Err
Url_parse(u) ==
    CASE u = "https://example.com" -> "https"
      [] u = "ftp://example.com" -> "ftp"
      [] OTHER -> "Err"

\* ScreenshotService::is_valid_url
is_valid_url(u) == Url_parse(u) # "Err"

\* take_screenshot: line 170 returns InvalidUrl before anything else is
\* done; a url that passed the check never yields InvalidUrl
take_screenshot(u) ==
    IF ~is_valid_url(u) THEN {"InvalidUrl"}
    ELSE TakeScreenshotOutcomes \ {"InvalidUrl"}

\* CircuitBreaker::can_execute: the value returned
can_execute ==
    \/ cb_state = "Closed"
    \/ cb_state = "HalfOpen"
    \/ (cb_state = "Open" /\ last_failure_time = "Elapsed")

\* CircuitBreaker::can_execute: the state it leaves
can_execute_state ==
    IF cb_state = "Open" /\ last_failure_time = "Elapsed"
    THEN "HalfOpen" ELSE cb_state

\* CircuitBreaker::record_success
record_success ==
    /\ failure_count' = 0
    /\ cb_state' = "Closed"
    /\ last_failure_time' = "None"

\* a failure of which the breaker is not told
record_failure_skipped ==
    UNCHANGED <<failure_count, last_failure_time, cb_state>>

\* CircuitBreaker::record_failure
record_failure ==
    /\ failure_count' = failure_count + 1
    /\ last_failure_time' = "Recent"
    /\ cb_state' = IF failure_count + 1 >= failure_threshold
                   THEN "Open" ELSE cb_state

\* line 133: the break condition of the retry loop
break_on_last_only(e, a) == a = max_attempts - 1

should_break(e, a) ==
    ~is_retryable(e) \/ a = max_attempts - 1

\* lines 90-105: sort, create the call's own semaphore of C permits and
\* spawn one task per request
process_requests(k) ==
    /\ call_pc[k] = "idle"
    /\ \E n \in 1 .. Cardinality(FreeTasks) :
        LET new == {t \in FreeTasks :
                        Cardinality({u \in FreeTasks : u < t}) < n}
        IN /\ call_tasks' = [call_tasks EXCEPT ![k] = new]
           /\ task_pc' = [t \in Tasks |->
                            IF t \in new THEN "spawned" ELSE task_pc[t]]
    /\ semaphore' = [semaphore EXCEPT ![k] = MaxConcurrent]
    /\ call_pc' = [call_pc EXCEPT ![k] = "joining"]
    /\ UNCHANGED <<cb_state, failure_count, last_failure_time, call_ret,
                   task_attempt, invocations, last_error, task_out>>
    /\ UNCHANGED <<attemptVars, requestVars, sortVars, poolVars, batchVars, utilVars>>

\* line 102: semaphore.acquire().await on the call's semaphore
Admit(t) ==
    /\ task_pc[t] = "spawned"
    /\ semaphore[CallOf(t)] > 0
    /\ semaphore' = [semaphore EXCEPT ![CallOf(t)] = @ - 1]
    /\ task_attempt' = [task_attempt EXCEPT ![t] = 0]
    /\ task_pc' = [task_pc EXCEPT ![t] = "check"]
    /\ UNCHANGED <<cb_state, failure_count, last_failure_time, call_pc,
                   call_tasks, call_ret, invocations, last_error, task_out>>
    /\ UNCHANGED <<attemptVars, requestVars, sortVars, poolVars, batchVars, utilVars>>

\* the task's future completes: _permit is dropped
Finish(t, out) ==
    /\ task_pc' = [task_pc EXCEPT ![t] = "done"]
    /\ task_out' = [task_out EXCEPT ![t] = out]
    /\ task_attempt' = [task_attempt EXCEPT ![t] = 0]
    /\ semaphore' = [semaphore EXCEPT ![CallOf(t)] = @ + 1]

\* lines 116-123: the breaker check at the head of an attempt; a denial
\* returns Err(BrowserUnavailable), otherwise take_screenshot is invoked
CheckBreaker(t) ==
    /\ task_pc[t] = "check"
    /\ cb_state' = can_execute_state
    /\ IF can_execute
       THEN /\ task_pc' = [task_pc EXCEPT ![t] = "capture"]
            /\ invocations' = [invocations EXCEPT ![t] = @ + 1]
            /\ UNCHANGED <<task_out, task_attempt, semaphore>>
       ELSE /\ Finish(t, "Err")
            /\ UNCHANGED invocations
    /\ UNCHANGED <<failure_count, last_failure_time, call_pc, call_tasks,
                   call_ret, last_error>>
    /\ UNCHANGED <<attemptVars, requestVars, sortVars, poolVars, batchVars, utilVars>>

\* lines 123-142: take_screenshot returns; success is recorded and
\* returned, a failure is recorded and either ends the loop (lines 145-163:
\* a Result with success = false) or leads to the backoff sleep
take_screenshot_returns(t) ==
    /\ task_pc[t] = "capture"
    /\ \E r \in take_screenshot(request_url[t]) :
        IF r = "Ok"
        THEN /\ record_success
             /\ Finish(t, "Success")
             /\ UNCHANGED last_error
        ELSE /\ last_error' = [last_error EXCEPT ![t] = r]
             /\ record_failure
             /\ IF should_break(r, task_attempt[t])
                THEN Finish(t, "Failure")
                ELSE /\ task_pc' = [task_pc EXCEPT ![t] = "backoff"]
                     /\ UNCHANGED <<task_out, task_attempt, semaphore>>
    /\ UNCHANGED <<call_pc, call_tasks, call_ret, invocations>>
    /\ UNCHANGED <<attemptVars, requestVars, sortVars, poolVars, batchVars, utilVars>>

\* line 140 and the loop head: the sleep ends, attempt is incremented
Backoff(t) ==
    /\ task_pc[t] = "backoff"
    /\ task_attempt' = [task_attempt EXCEPT ![t] = @ + 1]
    /\ task_pc' = [task_pc EXCEPT ![t] = "check"]
    /\ UNCHANGED <<cb_state, failure_count, last_failure_time, call_pc,
                   call_tasks, call_ret, semaphore, invocations, last_error,
                   task_out>>
    /\ UNCHANGED <<attemptVars, requestVars, sortVars, poolVars, batchVars, utilVars>>

\* lines 107-110: try_join_all has every task's output; collecting the
\* outputs into Result<Vec<_>, _> gives Err as soon as one of them is Err;
\* the tasks and their outputs are consumed
process_requests_returns(k) ==
    /\ call_pc[k] = "joining"
    /\ \A t \in TasksOf(k) : task_pc[t] = "done"
    /\ call_ret' = [call_ret EXCEPT ![k] =
            IF \E t \in TasksOf(k) : task_out[t] = "Err" THEN "Err" ELSE "Ok"]
    /\ call_pc' = [call_pc EXCEPT ![k] = "returned"]
    /\ task_pc' = [t \in Tasks |->
                    IF t \in TasksOf(k) THEN "joined" ELSE task_pc[t]]
    /\ invocations' = [t \in Tasks |->
                    IF t \in TasksOf(k) THEN 0 ELSE invocations[t]]
    /\ last_error' = [t \in Tasks |->
                    IF t \in TasksOf(k) THEN "None" ELSE last_error[t]]
    /\ task_out' = [t \in Tasks |->
                    IF t \in TasksOf(k) THEN "None" ELSE task_out[t]]
    /\ UNCHANGED <<cb_state, failure_count, last_failure_time, call_tasks,
                   semaphore, task_attempt>>
    /\ UNCHANGED <<attemptVars, requestVars, sortVars, poolVars, batchVars, utilVars>>

\* more than recovery_timeout passes since the last recorded failure
CooldownElapses ==
    /\ last_failure_time = "Recent"
    /\ last_failure_time' = "Elapsed"
    /\ UNCHANGED <<cb_state, failure_count, call_pc, call_tasks, call_ret,
                   semaphore, task_pc, task_attempt, invocations, last_error,
                   task_out>>
    /\ UNCHANGED <<attemptVars, requestVars, sortVars, poolVars, batchVars, utilVars>>

NextService ==
    \/ \E k \in Calls : process_requests(k)
    \/ \E t \in Tasks : Admit(t)
    \/ \E t \in Tasks : CheckBreaker(t)
    \/ \E t \in Tasks : take_screenshot_returns(t)
    \/ \E t \in Tasks : Backoff(t)
    \/ \E k \in Calls : process_requests_returns(k)
    \/ CooldownElapses

SpecService == InitService /\ [][NextService]_vars

\* the service with a new breaker and requests of every kind of url
SpecUrl == InitUrl /\ [][NextService]_vars

\* ---------------------------------------------------------------- service claims
\* the requests admitted to the capture path and not yet finished
InFlight == {t \in Tasks : task_pc[t] \in {"check", "capture", "backoff"}}

\* C6: over all concurrent process_requests calls of one service, at most
\* C = max_concurrent_screenshots requests are inside the capture path.
C6_AtMostCInFlight == Cardinality(InFlight) <= MaxConcurrent

\* C9: process_requests never returns an error for a terminal capture
\* failure: whatever its requests ran into (a non-retryable error, retries
\* exhausted, a breaker denial), the call returns the Results.
C9_NeverReturnsError ==
    \A k \in Calls : call_pc[k] = "returned" => call_ret[k] = "Ok"

\* the error kinds the claim C10 lists as not retryable
NonRetryableErrors ==
    {"InvalidUrl", "CaptureFailed", "ElementNotFound", "BrowserLaunchFailed",
     "MemoryLimitExceeded", "ConfigurationError", "IoError",
     "SerializationError"}

\* C10: once an attempt of a request has failed with a non-retryable
\* error, the request is finished with a success = false Result: it is
\* neither waiting to retry nor in another attempt.
C10_NoRetryAfterNonRetryable ==
    \A t \in Tasks :
        last_error[t] \in NonRetryableErrors
            => (task_pc[t] = "done" /\ task_out[t] = "Failure")

\* a first attempt failed with a non-retryable error while retries were
\* left: the capture path was invoked once
C10_Witness ==
    \E t \in Tasks :
        /\ last_error[t] \in NonRetryableErrors
        /\ task_pc[t] = "done"
        /\ invocations[t] = 1

\* C11: over the whole life of a request the capture path is invoked at
\* most R times, R the retry_attempts of the service's Config.
C11_AtMostRetryAttempts ==
    \A t \in Tasks : invocations[t] <= retry_attempts

\* the schemes of a web page
WebSchemes == {"http", "https"}

\* C12: a request whose url does not parse or has a scheme other than
\* http / https ends with a success = false Result carrying InvalidUrl
\* after exactly one attempt: its first invocation of take_screenshot
\* returns InvalidUrl (from line 171, before get_browser is called, hence
\* without a lease) and that ends the request.
C12_InvalidUrlEndsRequest ==
    [][\A t \in Tasks :
          (/\ Url_parse(request_url[t]) \notin WebSchemes
           /\ task_pc[t] = "capture"
           /\ task_pc'[t] # "capture")
              => /\ last_error'[t] = "InvalidUrl"
                 /\ task_pc'[t] = "done"
                 /\ task_out'[t] = "Failure"
                 /\ invocations'[t] = 1]_vars

\* the service with a new breaker and requests for a web page or for a
\* string that is no url
InitOutcome ==
    /\ InitPool
    /\ NewBreaker /\ NoAttempts
    /\ ParsedOrNot /\ NoCalls /\ NoSort
    /\ InitBatch
    /\ NoUtil

SpecOutcome == InitOutcome /\ [][NextService]_vars

\* task t's invocation of take_screenshot returns in this step
Returns(t) == task_pc[t] = "capture" /\ task_pc'[t] # "capture"

\* C31: every attempt that passed can_execute reports its outcome to the
\* breaker exactly once, in the step in which take_screenshot returns and
\* before the next attempt or the final Result: record_success for Ok,
\* record_failure for any error (InvalidUrl and BrowserUnavailable
\* included); no other step of the service counts a failure.
C31_OutcomeReportedOnce ==
    [][/\ \A t \in Tasks :
             Returns(t) =>
                 IF task_out'[t] = "Success"
                 THEN failure_count' = 0 /\ cb_state' = "Closed"
                 ELSE /\ last_error'[t] \in TakeScreenshotOutcomes \ {"Ok"}
                      /\ failure_count' = failure_count + 1
                      /\ last_failure_time' = "Recent"
       /\ failure_count' # failure_count => \E t \in Tasks : Returns(t)]_vars

\* attempts have failed with InvalidUrl and with BrowserUnavailable, which
\* never held a lease, and the breaker has counted them
C31_Witness ==
    \E t \in Tasks, u \in Tasks :
        /\ last_error[t] = "InvalidUrl"
        /\ last_error[u] = "BrowserUnavailable"
        /\ task_pc[t] = "done"
        /\ task_pc[u] \in {"done", "backoff"}
        /\ failure_count >= 2

\* ================================================================ breaker
\* The CircuitBreaker as the capture tasks of a multi-threaded runtime use
\* it from take_screenshot_with_retry: each access to the state mutex, to
\* the last_failure_time mutex and to the atomic counter is a separate
\* step.  The guard of last_failure_time that can_execute takes in the
\* `if let` of line 124 lives until the end of that block, so the mutex is
\* held while line 126 writes the state.

\* task th touches the breaker: no record_success but th's own is
\* undisturbed any longer
Disturb(th) ==
    [u \in CaptureTasks |-> IF u = th THEN undisturbed[u] ELSE FALSE]

\* screenshot_service.rs:116-117: an attempt begins with can_execute()
StartAttempt(th) ==
    /\ bt_pc[th] = "idle"
    /\ bt_pc' = [bt_pc EXCEPT ![th] = "can_execute"]
    /\ undisturbed' = [undisturbed EXCEPT ![th] = FALSE]
    /\ UNCHANGED <<cb_state, failure_count, last_failure_time,
                   failure_time_lock, failures, unbroken, streak,
                   failed_since, failure_age>>
    /\ UNCHANGED <<requestVars, callVars, sortVars, poolVars, batchVars, utilVars>>

\* error.rs:120-122, 135: read the state; Closed and HalfOpen return true
can_execute_state_read(th) ==
    /\ bt_pc[th] = "can_execute"
    /\ bt_pc' = [bt_pc EXCEPT ![th] =
                    IF cb_state = "Open" THEN "open" ELSE "capture"]
    /\ undisturbed' = Disturb(th)
    /\ UNCHANGED <<cb_state, failure_count, last_failure_time,
                   failure_time_lock, failures, unbroken, streak,
                   failed_since, failure_age>>
    /\ UNCHANGED <<requestVars, callVars, sortVars, poolVars, batchVars, utilVars>>

\* error.rs:124-133: lock last_failure_time and read it; None and a recent
\* failure return false (the guard is dropped), an elapsed one goes on to
\* line 126 with the guard alive
can_execute_open(th) ==
    /\ bt_pc[th] = "open"
    /\ failure_time_lock = NoTask
    /\ IF last_failure_time = "Elapsed"
       THEN /\ failure_time_lock' = th
            /\ bt_pc' = [bt_pc EXCEPT ![th] = "half_open"]
       ELSE /\ bt_pc' = [bt_pc EXCEPT ![th] = "denied"]
            /\ UNCHANGED failure_time_lock
    /\ undisturbed' = Disturb(th)
    /\ UNCHANGED <<cb_state, failure_count, last_failure_time, failures,
                   unbroken, streak, failed_since, failure_age>>
    /\ UNCHANGED <<requestVars, callVars, sortVars, poolVars, batchVars, utilVars>>

\* error.rs:126-127: state = HalfOpen, return true; the guard is dropped
can_execute_half_open(th) ==
    /\ bt_pc[th] = "half_open"
    /\ cb_state' = "HalfOpen"
    /\ failure_time_lock' = NoTask
    /\ bt_pc' = [bt_pc EXCEPT ![th] = "capture"]
    /\ undisturbed' = Disturb(th)
    /\ UNCHANGED <<failure_count, last_failure_time, failures, unbroken,
                   streak, failed_since, failure_age>>
    /\ UNCHANGED <<requestVars, callVars, sortVars, poolVars, batchVars, utilVars>>

\* screenshot_service.rs:117-119: can_execute() was false: the request
\* returns Err(BrowserUnavailable), nothing else is done
attempt_denied(th) ==
    /\ bt_pc[th] = "denied"
    /\ bt_pc' = [bt_pc EXCEPT ![th] = "idle"]
    /\ UNCHANGED <<cb_state, failure_count, last_failure_time,
                   failure_time_lock, failures, undisturbed, unbroken,
                   streak, failed_since, failure_age>>
    /\ UNCHANGED <<requestVars, callVars, sortVars, poolVars, batchVars, utilVars>>

\* screenshot_service.rs:123-125 and error.rs:140-141: take_screenshot
\* returns Ok, record_success stores 0 in the counter
record_success_count(th) ==
    /\ bt_pc[th] = "capture"
    /\ failure_count' = 0
    /\ bt_pc' = [bt_pc EXCEPT ![th] = "success_state"]
    /\ undisturbed' = [u \in CaptureTasks |-> u = th]
    /\ unbroken' = [u \in CaptureTasks |-> FALSE]
    /\ streak' = 0
    /\ failed_since' = 0
    /\ UNCHANGED <<cb_state, last_failure_time, failure_time_lock, failures,
                   failure_age>>
    /\ UNCHANGED <<requestVars, callVars, sortVars, poolVars, batchVars, utilVars>>

\* error.rs:142 left out
record_success_state_kept(th) ==
    /\ bt_pc[th] = "success_state"
    /\ bt_pc' = [bt_pc EXCEPT ![th] = "success_time"]
    /\ undisturbed' = Disturb(th)
    /\ UNCHANGED <<cb_state, failure_count, last_failure_time,
                   failure_time_lock, failures, unbroken, streak,
                   failed_since, failure_age>>
    /\ UNCHANGED <<requestVars, callVars, sortVars, poolVars, batchVars, utilVars>>

\* error.rs:142: state = Closed
record_success_state(th) ==
    /\ bt_pc[th] = "success_state"
    /\ cb_state' = "Closed"
    /\ bt_pc' = [bt_pc EXCEPT ![th] = "success_time"]
    /\ undisturbed' = Disturb(th)
    /\ unbroken' = [u \in CaptureTasks |-> FALSE]
    /\ streak' = 0
    /\ UNCHANGED <<failure_count, last_failure_time, failure_time_lock,
                   failures, failed_since, failure_age>>
    /\ UNCHANGED <<requestVars, callVars, sortVars, poolVars, batchVars, utilVars>>

\* error.rs:143: last_failure_time = None; record_success returns and the
\* request returns Ok
record_success_time(th) ==
    /\ bt_pc[th] = "success_time"
    /\ failure_time_lock = NoTask
    /\ last_failure_time' = "None"
    /\ bt_pc' = [bt_pc EXCEPT ![th] = "idle"]
    /\ undisturbed' = Disturb(th)
    /\ unbroken' = [u \in CaptureTasks |-> FALSE]
    /\ streak' = 0
    /\ UNCHANGED <<cb_state, failure_count, failure_time_lock, failures,
                   failed_since, failure_age>>
    /\ UNCHANGED <<requestVars, callVars, sortVars, poolVars, batchVars, utilVars>>

\* a record_success call is between its first and its last step
SuccessInProgress ==
    \E u \in CaptureTasks : bt_pc[u] \in {"success_state", "success_time"}

\* screenshot_service.rs:128-130 and error.rs:147-150: take_screenshot
\* returns an error, record_failure adds 1 to the counter
record_failure_count(th) ==
    /\ bt_pc[th] = "capture"
    /\ failure_count < MaxFailureCount
    /\ failure_count' = failure_count + 1
    /\ failures' = [failures EXCEPT ![th] = failure_count + 1]
    /\ bt_pc' = [bt_pc EXCEPT ![th] = "failure_time"]
    /\ undisturbed' = Disturb(th)
    /\ unbroken' = [unbroken EXCEPT ![th] = ~SuccessInProgress]
    /\ UNCHANGED <<cb_state, last_failure_time, failure_time_lock, streak,
                   failed_since, failure_age>>
    /\ UNCHANGED <<requestVars, callVars, sortVars, poolVars, batchVars, utilVars>>

\* the task's record_failure returns
record_failure_returns(th) ==
    /\ failures' = [failures EXCEPT ![th] = 0]
    /\ unbroken' = [unbroken EXCEPT ![th] = FALSE]
    /\ streak' = IF unbroken[th] /\ streak < failure_threshold
                 THEN streak + 1 ELSE streak
    /\ failed_since' = IF failed_since < failure_threshold
                       THEN failed_since + 1 ELSE failed_since

\* error.rs:151-153: last_failure_time = Some(now), then the test of the
\* threshold
record_failure_time(th) ==
    /\ bt_pc[th] = "failure_time"
    /\ failure_time_lock = NoTask
    /\ last_failure_time' = "Recent"
    /\ failure_age' = "Recent"
    /\ IF failures[th] >= failure_threshold
       THEN /\ bt_pc' = [bt_pc EXCEPT ![th] = "failure_state"]
            /\ UNCHANGED <<failures, unbroken, streak, failed_since>>
       ELSE /\ bt_pc' = [bt_pc EXCEPT ![th] = "idle"]
            /\ record_failure_returns(th)
    /\ undisturbed' = Disturb(th)
    /\ UNCHANGED <<cb_state, failure_count, failure_time_lock>>
    /\ UNCHANGED <<requestVars, callVars, sortVars, poolVars, batchVars, utilVars>>

\* error.rs:154: state = Open
record_failure_state(th) ==
    /\ bt_pc[th] = "failure_state"
    /\ cb_state' = "Open"
    /\ bt_pc' = [bt_pc EXCEPT ![th] = "idle"]
    /\ record_failure_returns(th)
    /\ undisturbed' = Disturb(th)
    /\ UNCHANGED <<failure_count, last_failure_time, failure_time_lock,
                   failure_age>>
    /\ UNCHANGED <<requestVars, callVars, sortVars, poolVars, batchVars, utilVars>>

\* more than recovery_timeout passes since the last record_failure wrote
\* its timestamp
recovery_timeout_elapses ==
    /\ last_failure_time = "Recent" \/ failure_age = "Recent"
    /\ last_failure_time' =
            IF last_failure_time = "Recent" THEN "Elapsed"
            ELSE last_failure_time
    /\ failure_age' = IF failure_age = "Recent" THEN "Elapsed" ELSE failure_age
    /\ UNCHANGED <<cb_state, failure_count, failure_time_lock, bt_pc,
                   failures, undisturbed, unbroken, streak, failed_since>>
    /\ UNCHANGED <<requestVars, callVars, sortVars, poolVars, batchVars, utilVars>>

NextBreaker ==
    \/ \E th \in CaptureTasks : StartAttempt(th)
    \/ \E th \in CaptureTasks : can_execute_state_read(th)
    \/ \E th \in CaptureTasks : can_execute_open(th)
    \/ \E th \in CaptureTasks : can_execute_half_open(th)
    \/ \E th \in CaptureTasks : attempt_denied(th)
    \/ \E th \in CaptureTasks : record_success_count(th)
    \/ \E th \in CaptureTasks : record_success_state(th)
    \/ \E th \in CaptureTasks : record_success_time(th)
    \/ \E th \in CaptureTasks : record_failure_count(th)
    \/ \E th \in CaptureTasks : record_failure_time(th)
    \/ \E th \in CaptureTasks : record_failure_state(th)
    \/ recovery_timeout_elapses

SpecBreaker == Init /\ [][NextBreaker]_vars

\* no task is inside a breaker operation
Quiescent ==
    \A th \in CaptureTasks : bt_pc[th] \in {"idle", "capture", "denied"}

\* C13: after F consecutive record_failure calls with no record_success in
\* between, can_execute returns false while no more than D has elapsed
\* since the most recent recorded failure; before the F-th failure since
\* the last record_success, can_execute returns true.
C13_OpensAtThreshold ==
    /\ (Quiescent /\ streak >= failure_threshold
            /\ last_failure_time = "Recent") => ~can_execute
    /\ (Quiescent /\ failed_since < failure_threshold) => can_execute

\* C14: from any breaker state and any failure count, one record_success
\* call (that no other task interleaves with) leaves the counter at 0, the
\* state Closed and the timestamp cleared, so that the next can_execute
\* returns true.
C14_SuccessResets ==
    \A th \in CaptureTasks :
        (bt_pc[th] = "idle" /\ undisturbed[th])
            => /\ failure_count = 0
               /\ cb_state = "Closed"
               /\ last_failure_time = "None"
               /\ can_execute

\* a task has recorded a success, undisturbed, after the other one was
\* denied by the open breaker: the call began in state Open with the
\* counter at F or more
C14_Witness ==
    \E th, u \in CaptureTasks :
        /\ bt_pc[th] = "idle" /\ undisturbed[th]
        /\ bt_pc[u] = "denied"

\* C15: under every interleaving of record_failure, record_success and
\* can_execute the breaker never gets stuck Open: whenever its state is
\* Open a last-failure timestamp is recorded (so that a can_execute made
\* more than D after it returns true).
C15_OpenHasTimestamp ==
    cb_state = "Open" => last_failure_time # "None"

\* C16: in every reachable HalfOpen state a single record_failure moves
\* the breaker to Open (the counter is at F - 1 or more, so that the test
\* of line 153 holds) and a single record_success moves it to Closed; the
\* breaker leaves Closed for Open only when the counter has reached F.
C16_HalfOpenAndThreshold ==
    /\ []((Quiescent /\ cb_state = "HalfOpen")
            => failure_count + 1 >= failure_threshold)
    /\ [][\A th \in CaptureTasks :
            (cb_state = "HalfOpen" /\ bt_pc[th] = "success_state"
                /\ bt_pc'[th] # "success_state") => cb_state' = "Closed"]_vars
    /\ [][(cb_state = "Closed" /\ cb_state' = "Open")
            => failure_count' >= failure_threshold]_vars

\* C17: when can_execute returns false at the start of an attempt the
\* request ends with BrowserUnavailable and nothing else happens: the
\* capture path is not entered (no lease) and the breaker is left as it
\* is (no record_success, no record_failure); once more than D has passed
\* since the last failure a request's can_execute returns true and the
\* request reaches the capture path.
C17_DeniedThenRecovers ==
    /\ [][\A th \in CaptureTasks :
            (bt_pc[th] = "denied" /\ bt_pc'[th] # "denied")
                => /\ bt_pc'[th] = "idle"
                   /\ UNCHANGED <<cb_state, failure_count,
                                  last_failure_time>>]_vars
    /\ []((Quiescent /\ failure_age = "Elapsed") => can_execute)

\* ================================================================ ordering
\* process_requests as a function of the priorities of its requests: the
\* sort of lines 92-93 and the order of the Results it returns.  A request
\* is named by its position in the Vec the call was given.

\* ScreenshotService::priority_to_value
priority_to_value(p) ==
    CASE p = "Low" -> 0
      [] p = "Normal" -> 1
      [] p = "High" -> 2
      [] p = "Critical" -> 3

\* a comparator that also puts a request before its equals
before_or_equal(a, b) ==
    priority_to_value(requests[b]) <= priority_to_value(requests[a])

\* line 93: the comparator priority_to_value(b).cmp(priority_to_value(a))
\* is Less, request a goes before request b
before(a, b) ==
    priority_to_value(requests[b]) < priority_to_value(requests[a])

\* Vec::sort_by is a stable sort: the element goes in front of the first
\* one the comparator puts it before, behind its equals
RECURSIVE insert(_, _)
insert(x, sorted) ==
    IF sorted = <<>> THEN <<x>>
    ELSE IF before(x, Head(sorted)) THEN <<x>> \o sorted
    ELSE <<Head(sorted)>> \o insert(x, Tail(sorted))

RECURSIVE sort_by(_)
sort_by(v) ==
    IF v = <<>> THEN <<>>
    ELSE insert(v[Len(v)], sort_by(SubSeq(v, 1, Len(v) - 1)))

\* lines 92-93: sorted_requests = requests, sorted by priority
sort_requests ==
    /\ sort_pc = "called"
    /\ sorted_requests' = sort_by([i \in 1 .. Len(requests) |-> i])
    /\ sort_pc' = "sorted"
    /\ UNCHANGED <<requests, returned, sort_ret>>
    /\ UNCHANGED <<cb_state, failure_count, last_failure_time, attemptVars,
                   requestVars, callVars, poolVars, batchVars, utilVars>>

\* lines 96-110: one task per element of sorted_requests, in that order;
\* try_join_all gives the outputs in the order of the tasks and collect
\* keeps it, or gives the first Err
process_requests_collects ==
    /\ sort_pc = "sorted"
    /\ \/ /\ returned' = sorted_requests
          /\ sort_ret' = "Ok"
       \/ /\ sorted_requests # <<>>
          /\ returned' = <<>>
          /\ sort_ret' = "Err"
    /\ sort_pc' = "returned"
    /\ UNCHANGED <<requests, sorted_requests>>
    /\ UNCHANGED <<cb_state, failure_count, last_failure_time, attemptVars,
                   requestVars, callVars, poolVars, batchVars, utilVars>>

NextSort ==
    \/ sort_requests
    \/ process_requests_collects

SpecSort == InitSort /\ [][NextSort]_vars

\* C18: the Results of one process_requests call are ordered by priority,
\* highest first, requests of equal priority in the order of the input,
\* and are a permutation of the input requests.
C18_ResultsByPriority ==
    sort_ret = "Ok" =>
        /\ Len(returned) = Len(requests)
        /\ \A i \in 1 .. Len(requests) :
              \E j \in 1 .. Len(returned) : returned[j] = i
        /\ \A i, j \in 1 .. Len(returned) :
              i < j =>
                 \/ priority_to_value(requests[returned[i]])
                        > priority_to_value(requests[returned[j]])
                 \/ /\ priority_to_value(requests[returned[i]])
                        = priority_to_value(requests[returned[j]])
                    /\ returned[i] < returned[j]

\* a call returned the Results of three requests, the last of the input
\* first, the two of equal priority in their input order
C18_Witness ==
    /\ sort_ret = "Ok"
    /\ Len(requests) = 3
    /\ requests[1] = requests[2]
    /\ returned = <<3, 1, 2>>

\* the service with a new breaker and requests of every priority
SpecPriority == InitPriority /\ [][NextService]_vars

\* the request has begun its first capture attempt
Started(t) == invocations[t] >= 1

\* C19: within one process_requests call no request begins its first
\* capture attempt before every request of strictly higher priority in
\* the same call has begun its own (or has ended without one).
C19_StartsByPriority ==
    \A k \in Calls : \A t, u \in TasksOf(k) :
        (/\ priority_to_value(request_priority[u])
                > priority_to_value(request_priority[t])
         /\ Started(t))
            => (Started(u) \/ task_pc[u] \in {"done", "joined"})

\* ================================================================ batch
\* mpsc::Receiver::recv: what stays in the channel
recv_peek(ch) == ch

recv_rest(ch) == Tail(ch)

\* BatchProcessor::process_batch lines 257-262
process_batch ==
    /\ batch_pc = "idle"
    /\ \E n \in 1 .. MaxBatchSize : total_requests' = n
    /\ submitted' = 0
    /\ results' = <<>>
    /\ batch_pc' = "submit"
    /\ UNCHANGED <<request_chan, result_chan, receiver_lock, worker_pc,
                   worker_item>>
    /\ UNCHANGED <<poolVars, svcVars, utilVars>>

\* lines 264-268 and submit_request: request_sender.send(request).await
\* completes when the channel has a free slot
submit_request ==
    /\ batch_pc = "submit"
    /\ Len(request_chan) < ChannelCapacity
    /\ request_chan' = Append(request_chan, submitted + 1)
    /\ submitted' = submitted + 1
    /\ batch_pc' = IF submitted + 1 = total_requests THEN "collect"
                   ELSE "submit"
    /\ UNCHANGED <<result_chan, receiver_lock, worker_pc, worker_item,
                   total_requests, results>>
    /\ UNCHANGED <<poolVars, svcVars, utilVars>>

\* lines 271-275 and get_result: result_receiver.recv().await
get_result ==
    /\ batch_pc = "collect"
    /\ result_chan # <<>>
    /\ results' = Append(results, Head(result_chan))
    /\ result_chan' = Tail(result_chan)
    /\ batch_pc' = IF Len(results) + 1 = total_requests THEN "done"
                   ELSE "collect"
    /\ UNCHANGED <<request_chan, receiver_lock, worker_pc, worker_item,
                   total_requests, submitted>>
    /\ UNCHANGED <<poolVars, svcVars, utilVars>>

\* run_with_shared_receiver line 71: requests.lock().await
WorkerLock(w) ==
    /\ worker_pc[w] = "lock"
    /\ receiver_lock = NoTask
    /\ receiver_lock' = w
    /\ worker_pc' = [worker_pc EXCEPT ![w] = "recv"]
    /\ UNCHANGED <<request_chan, result_chan, worker_item, batch_pc,
                   total_requests, submitted, results>>
    /\ UNCHANGED <<poolVars, svcVars, utilVars>>

\* lines 72-73: receiver.recv().await under the lock, which is then dropped
WorkerRecv(w) ==
    /\ worker_pc[w] = "recv"
    /\ request_chan # <<>>
    /\ worker_item' = [worker_item EXCEPT ![w] = <<Head(request_chan)>>]
    /\ request_chan' = recv_rest(request_chan)
    /\ receiver_lock' = NoTask
    /\ worker_pc' = [worker_pc EXCEPT ![w] = "process"]
    /\ UNCHANGED <<result_chan, batch_pc, total_requests, submitted, results>>
    /\ UNCHANGED <<poolVars, svcVars, utilVars>>

\* lines 77-86 and process_request: screenshot_single gives a Result, or an
\* error that is turned into a Result with success = false
WorkerProcess(w) ==
    /\ worker_pc[w] = "process"
    /\ \E success \in BOOLEAN :
        worker_item' = [worker_item EXCEPT ![w] = <<@[1], success>>]
    /\ worker_pc' = [worker_pc EXCEPT ![w] = "send"]
    /\ UNCHANGED <<request_chan, result_chan, receiver_lock, batch_pc,
                   total_requests, submitted, results>>
    /\ UNCHANGED <<poolVars, svcVars, utilVars>>

\* line 88: results.send(result).await
WorkerSend(w) ==
    /\ worker_pc[w] = "send"
    /\ Len(result_chan) < ChannelCapacity
    /\ result_chan' = Append(result_chan, worker_item[w])
    /\ worker_item' = [worker_item EXCEPT ![w] = <<>>]
    /\ worker_pc' = [worker_pc EXCEPT ![w] = "lock"]
    /\ UNCHANGED <<request_chan, receiver_lock, batch_pc, total_requests,
                   submitted, results>>
    /\ UNCHANGED <<poolVars, svcVars, utilVars>>

NextBatch ==
    \/ process_batch
    \/ submit_request
    \/ get_result
    \/ \E w \in Workers : WorkerLock(w)
    \/ \E w \in Workers : WorkerRecv(w)
    \/ \E w \in Workers : WorkerProcess(w)
    \/ \E w \in Workers : WorkerSend(w)

SpecBatch == Init /\ [][NextBatch]_vars

\* ---------------------------------------------------------------- batch claims
\* where request id r is: the number of times it occurs in the request
\* channel, in a worker's hands, in the result channel and in results
Held(r) ==
    Cardinality({k \in 1 .. Len(request_chan) : request_chan[k] = r})
    + Cardinality({w \in Workers :
                      worker_item[w] # <<>> /\ worker_item[w][1] = r})
    + Cardinality({k \in 1 .. Len(result_chan) : result_chan[k][1] = r})
    + Cardinality({k \in 1 .. Len(results) : results[k][1] = r})

C8_BatchNeverStuck ==
    ~(/\ batch_pc = "submit"
      /\ Len(request_chan) = ChannelCapacity
      /\ Len(result_chan) = ChannelCapacity
      /\ \A w \in Workers : worker_pc[w] = "send")


\* ================================================================ MemoryMonitor
\* MemoryMonitor::new (utils.rs:168-174): alert_threshold is
\* (max_memory as f64 * 0.8) as usize, the product rounded towards zero
alert_threshold == (max_memory * 8) \div 10

\* check_memory (utils.rs:176-186)
check_memory ==
    IF current_usage > max_memory THEN "Critical"
    ELSE IF current_usage > alert_threshold THEN "Warning"
    ELSE "Normal"

\* update_usage (utils.rs:188-190)
update_usage(usage) ==
    /\ current_usage' = usage
    /\ memory_status' = "None"
    /\ UNCHANGED <<max_memory, rateVars, fileVars, scanVars, progressVars, pairVars, lockVars, poolVars, svcVars,
                   batchVars>>

\* a call of check_memory
check_memory_returns ==
    /\ memory_status' = check_memory
    /\ UNCHANGED <<max_memory, current_usage, rateVars, fileVars, scanVars, progressVars, pairVars, lockVars, poolVars,
                   svcVars, batchVars>>

NextMemory ==
    \/ \E usage \in 0 .. (MaxMemory + 1) : update_usage(usage)
    \/ check_memory_returns

\* a monitor of any size up to MaxMemory
InitMemory ==
    /\ InitPool
    /\ NewBreaker /\ NoAttempts
    /\ DefaultRequests /\ NoCalls /\ NoSort
    /\ InitBatch
    /\ max_memory \in 1 .. MaxMemory
    /\ current_usage = 0
    /\ memory_status = "None"
    /\ NoLimiter /\ NoFile /\ NoScan /\ NoProgress /\ NoResults
    /\ NoLocks

SpecMemory == InitMemory /\ [][NextMemory]_vars

\* C29: check_memory reports Critical whenever the usage is at least 100 %
\* of max_memory (the usage equal to max_memory included), Warning whenever
\* it is at least 80 % and below 100 % (exactly 80 % included), and Normal
\* otherwise.
C29_StatusByPercentage ==
    memory_status # "None" =>
        memory_status =
            IF current_usage * 100 >= max_memory * 100 THEN "Critical"
            ELSE IF current_usage * 100 >= max_memory * 80 THEN "Warning"
            ELSE "Normal"

\* ================================================================ RateLimiter
\* Instant::duration_since: zero when the earlier instant is the later one
duration_since(now, time) == IF now >= time THEN now - time ELSE 0

\* line 234: times.retain(|&time| now.duration_since(time) < window_size)
retain(times, now) ==
    SelectSeq(times, LAMBDA time : duration_since(now, time) < window_size)

\* line 230: let now = Instant::now(), read before the lock is awaited
acquire_reads_now(t) ==
    /\ acq_pc[t] = "idle"
    /\ acquire_calls < MaxAcquireCalls
    /\ acquire_calls' = acquire_calls + 1
    /\ acq_now' = [acq_now EXCEPT ![t] = clock]
    /\ acq_pc' = [acq_pc EXCEPT ![t] = "acquire"]
    /\ UNCHANGED <<clock, request_times, acq_ret, current_rate, granted>>
    /\ UNCHANGED <<memoryVars, fileVars, scanVars, progressVars, pairVars, lockVars, poolVars, svcVars, batchVars>>

\* line 251: let now = Instant::now(), read before the lock is awaited
get_current_rate_reads_now(t) ==
    /\ acq_pc[t] = "idle"
    /\ acquire_calls < MaxAcquireCalls
    /\ acquire_calls' = acquire_calls + 1
    /\ acq_now' = [acq_now EXCEPT ![t] = clock]
    /\ acq_pc' = [acq_pc EXCEPT ![t] = "rate"]
    /\ UNCHANGED <<clock, request_times, acq_ret, current_rate, granted>>
    /\ UNCHANGED <<memoryVars, fileVars, scanVars, progressVars, pairVars, lockVars, poolVars, svcVars, batchVars>>

\* lines 231-241: under the lock of request_times
acquire(t) ==
    /\ acq_pc[t] = "acquire"
    /\ LET times == retain(request_times, acq_now[t])
       IN IF Len(times) < requests_per_second
          THEN /\ request_times' = Append(times, acq_now[t])
               /\ granted' = Append(granted, acq_now[t])
               /\ acq_ret' = [acq_ret EXCEPT ![t] = "true"]
          ELSE /\ request_times' = times
               /\ granted' = granted
               /\ acq_ret' = [acq_ret EXCEPT ![t] = "false"]
    /\ acq_pc' = [acq_pc EXCEPT ![t] = "idle"]
    /\ UNCHANGED <<clock, acq_now, current_rate, acquire_calls>>
    /\ UNCHANGED <<memoryVars, fileVars, scanVars, progressVars, pairVars, lockVars, poolVars, svcVars, batchVars>>

\* lines 252-256: under the lock of request_times
get_current_rate(t) ==
    /\ acq_pc[t] = "rate"
    /\ current_rate' = Len(retain(request_times, acq_now[t]))
    /\ acq_pc' = [acq_pc EXCEPT ![t] = "idle"]
    /\ UNCHANGED <<clock, request_times, acq_now, acq_ret, acquire_calls,
                   granted>>
    /\ UNCHANGED <<memoryVars, fileVars, scanVars, progressVars, pairVars, lockVars, poolVars, svcVars, batchVars>>

\* time passes
Tick ==
    /\ clock < MaxClock
    /\ clock' = clock + 1
    /\ UNCHANGED <<request_times, acq_pc, acq_now, acq_ret, current_rate,
                   acquire_calls, granted>>
    /\ UNCHANGED <<memoryVars, fileVars, scanVars, progressVars, pairVars, lockVars, poolVars, svcVars, batchVars>>

NextRate ==
    \/ \E t \in Acquirers : acquire_reads_now(t)
    \/ \E t \in Acquirers : acquire(t)
    \/ \E t \in Acquirers : get_current_rate_reads_now(t)
    \/ \E t \in Acquirers : get_current_rate(t)
    \/ Tick

SpecRate == Init /\ [][NextRate]_vars

\* the granted timestamps a call at now finds within its window
GrantedInWindow(now) ==
    Cardinality({k \in 1 .. Len(granted) :
                    duration_since(now, granted[k]) < window_size})

\* the calls granted at an instant of the window that begins at w
GrantedFrom(w) ==
    Cardinality({k \in 1 .. Len(granted) :
                    granted[k] \in w .. (w + window_size - 1)})

\* C28: acquire returns true exactly when fewer than requests_per_second
\* granted timestamps lie within the one-second window of the call, a false
\* return records nothing, no window of one second has more than
\* requests_per_second granted calls, and get_current_rate never exceeds
\* requests_per_second.
C28_AtMostRatePerWindow ==
    /\ [](\A w \in 0 .. MaxClock : GrantedFrom(w) <= requests_per_second)
    /\ [](current_rate <= requests_per_second)
    /\ [][\A t \in Acquirers :
            (acq_pc[t] = "acquire" /\ acq_pc'[t] = "idle") =>
                /\ (acq_ret'[t] = "true") <=>
                      (GrantedInWindow(acq_now[t]) < requests_per_second)
                /\ acq_ret'[t] = "false" =>
                      /\ granted' = granted
                      /\ Len(request_times') <= Len(request_times)]_vars

\* ================================================================ file names
\* A url is a sequence of characters; the scheme prefix and the host are
\* written as one element each.
Schemes == {"https://", "http://"}

\* the characters that follow the host and its slash: a letter, the five
\* characters generate_filename replaces, and other characters that
\* Url::parse accepts in a path or query (it encodes or drops them in the
\* parsed Url; result.url is the string of the request)
PathChars == {"a", "/", "?", "&", "=", ":", "\\", "*", "\"", "<", ">", "|", "\t"}

RECURSIVE SeqsUpTo(_, _)
SeqsUpTo(S, n) ==
    IF n = 0 THEN {<<>>}
    ELSE LET shorter == SeqsUpTo(S, n - 1)
         IN shorter \cup {Append(q, x) : q \in shorter, x \in S}

\* the urls of successful results: an http(s) url of a host, with a path
ResultUrls ==
    {<<s, "example.com", "/">> \o tail :
        s \in Schemes, tail \in SeqsUpTo(PathChars, MaxTailLen)}

\* enum OutputFormat (config.rs:243-250)
OutputFormats == {"Png", "Jpeg", "Webp"}

\* str::replace with a pattern that is one element, by nothing or by one
\* character
replace(str, from, to) ==
    IF to = ""
    THEN SelectSeq(str, LAMBDA c : c # from)
    ELSE [k \in 1 .. Len(str) |-> IF str[k] = from THEN to ELSE str[k]]

\* cli.rs:533-537
extension(format) ==
    CASE format = "Png" -> "png"
      [] format = "Jpeg" -> "jpg"
      [] format = "Webp" -> "webp"

\* generate_filename (cli.rs:523-540)
generate_filename(url, format) ==
    LET sanitized ==
            replace(replace(replace(replace(replace(replace(replace(url,
                "https://", ""), "http://", ""), "/", "_"), "?", "_"),
                "&", "_"), "=", "_"), ":", "_")
    IN sanitized \o <<".", extension(format)>>

\* cli.rs:310-311: a successful result is given its file name
save_result ==
    /\ filename = <<>>
    /\ filename' = generate_filename(result_url, result_format)
    /\ UNCHANGED <<result_url, result_format, memoryVars, rateVars, scanVars, progressVars, pairVars, lockVars, poolVars,
                   svcVars, batchVars>>

NextFile == save_result

\* a successful result for any url and format
InitFile ==
    /\ InitPool
    /\ NewBreaker /\ NoAttempts
    /\ DefaultRequests /\ NoCalls /\ NoSort
    /\ InitBatch
    /\ NoMonitor /\ NoLimiter /\ NoScan /\ NoProgress /\ NoResults
    /\ NoLocks
    /\ result_url \in ResultUrls
    /\ result_format \in OutputFormats
    /\ filename = <<>>

SpecFile == InitFile /\ [][NextFile]_vars

\* the characters a file name must not contain; "\t" is the control
\* character among PathChars
ForbiddenChars == {"/", "\\", ":", "*", "?", "\"", "<", ">", "|", "\t"}

\* C30: the file name of a successful result contains none of
\* / \ : * ? " < > | and no control character, has a non-empty stem and
\* ends with the extension of the output format.
C30_FilenameIsSafe ==
    filename # <<>> =>
        /\ \A k \in 1 .. Len(filename) :
              filename[k] \notin ForbiddenChars \cup Schemes
        /\ Len(filename) > 2
        /\ filename[Len(filename) - 1] = "."
        /\ filename[Len(filename)] =
              (CASE result_format = "Png" -> "png"
                 [] result_format = "Jpeg" -> "jpg"
                 [] result_format = "Webp" -> "webp")

\* ---------------------------------------------------------------- SpecSave
\* the urls of the results of a batch
BatchUrls ==
    {<<s, "example.com", "/">> \o tail :
        s \in Schemes, tail \in SeqsUpTo(PathChars, MaxPairTail)}

\* cli.rs:307-317: the next successful result is written to
\* output/generate_filename(url, format); fs::write replaces a file of
\* that name
save_results ==
    /\ saved < Len(batch_urls)
    /\ LET url == batch_urls[saved + 1]
           name == generate_filename(url, batch_format)
       IN files' = {f \in files : f.name # name}
                      \cup {[name |-> name, url |-> url]}
    /\ saved' = saved + 1
    /\ UNCHANGED <<batch_urls, batch_format>>
    /\ UNCHANGED <<memoryVars, rateVars, fileVars, scanVars, progressVars,
                   lockVars, poolVars, svcVars, batchVars>>

NextSave == save_results

InitSave ==
    /\ InitPool
    /\ NewBreaker /\ NoAttempts
    /\ DefaultRequests /\ NoCalls /\ NoSort
    /\ InitBatch
    /\ NoMonitor /\ NoLimiter /\ NoFile /\ NoScan /\ NoProgress /\ NoLocks
    /\ batch_urls \in [1 .. NumResults -> BatchUrls]
    /\ batch_format \in OutputFormats
    /\ files = {}
    /\ saved = 0

SpecSave == InitSave /\ [][NextSave]_vars

\* C38: in one batch run the results of distinct urls are written to
\* distinct files: every result saved so far still has its file, no
\* later result of another url having overwritten it.
C38_DistinctUrlsDistinctFiles ==
    \A k \in 1 .. saved :
        \E f \in files : f.url = batch_urls[k]

\* ================================================================ ProgressTracker
Recorders == 1 .. NumRecorders

\* worker.rs:331: completed.fetch_add(1); the caller records one completion
\* per result of the batch
record_completion(r, success) ==
    /\ rec_pc[r] = "idle"
    /\ rec_calls < total
    /\ rec_calls' = rec_calls + 1
    /\ completed' = completed + 1
    /\ rec_pc' = [rec_pc EXCEPT ![r] = IF success THEN "idle" ELSE "errors"]
    /\ UNCHANGED <<total, errors, rd_pc, rd_completed, rd_errors,
                   progress_info>>
    /\ UNCHANGED <<memoryVars, rateVars, fileVars, scanVars, pairVars,
                   lockVars, poolVars, svcVars, batchVars>>

\* worker.rs:332-334: if !success, errors.fetch_add(1)
record_completion_error(r) ==
    /\ rec_pc[r] = "errors"
    /\ errors' = errors + 1
    /\ rec_pc' = [rec_pc EXCEPT ![r] = "idle"]
    /\ UNCHANGED <<total, completed, rec_calls, rd_pc, rd_completed,
                   rd_errors, progress_info>>
    /\ UNCHANGED <<memoryVars, rateVars, fileVars, scanVars, pairVars,
                   lockVars, poolVars, svcVars, batchVars>>

\* worker.rs:338: completed.load()
get_progress_loads_completed ==
    /\ rd_pc = "idle"
    /\ rd_completed' = completed
    /\ rd_pc' = "load_errors"
    /\ UNCHANGED <<total, completed, errors, rec_pc, rec_calls, rd_errors,
                   progress_info>>
    /\ UNCHANGED <<memoryVars, rateVars, fileVars, scanVars, pairVars,
                   lockVars, poolVars, svcVars, batchVars>>

\* worker.rs:339: errors.load()
get_progress_loads_errors ==
    /\ rd_pc = "load_errors"
    /\ rd_errors' = errors
    /\ rd_pc' = "build"
    /\ UNCHANGED <<total, completed, errors, rec_pc, rec_calls, rd_completed,
                   progress_info>>
    /\ UNCHANGED <<memoryVars, rateVars, fileVars, scanVars, pairVars,
                   lockVars, poolVars, svcVars, batchVars>>

\* usize subtraction, worker.rs:346 and 354: below zero it panics in a
\* build with overflow checks and wraps to 2^64 + (a - b) in one without;
\* the wrapped value is written as the negative a - b, with the flag set
underflows(a, b) == a < b

\* worker.rs:342-363: the ProgressInfo, or the panic of the subtraction
get_progress_returns ==
    /\ rd_pc = "build"
    /\ \/ /\ progress_info' =
                [total |-> total, completed |-> rd_completed,
                 errors |-> rd_errors, success |-> rd_completed - rd_errors,
                 underflow |-> \/ underflows(rd_completed, rd_errors)
                               \/ (rd_completed > 0
                                      /\ underflows(total, rd_completed))]
          /\ rd_pc' = "idle"
       \/ /\ underflows(rd_completed, rd_errors)
          /\ rd_pc' = "panicked"
          /\ UNCHANGED progress_info
    /\ UNCHANGED <<total, completed, errors, rec_pc, rec_calls, rd_completed,
                   rd_errors>>
    /\ UNCHANGED <<memoryVars, rateVars, fileVars, scanVars, pairVars,
                   lockVars, poolVars, svcVars, batchVars>>

NextProgress ==
    \/ \E r \in Recorders, success \in BOOLEAN : record_completion(r, success)
    \/ \E r \in Recorders : record_completion_error(r)
    \/ get_progress_loads_completed
    \/ get_progress_loads_errors
    \/ get_progress_returns

\* ProgressTracker::new(total), worker.rs:320-327
InitProgress ==
    /\ InitPool
    /\ NewBreaker /\ NoAttempts
    /\ DefaultRequests /\ NoCalls /\ NoSort
    /\ InitBatch
    /\ NoMonitor /\ NoLimiter /\ NoFile /\ NoScan /\ NoResults /\ NoLocks
    /\ total \in 1 .. MaxTotal
    /\ completed = 0
    /\ errors = 0
    /\ rec_pc = [r \in Recorders |-> "idle"]
    /\ rec_calls = 0
    /\ rd_pc = "idle"
    /\ rd_completed = 0
    /\ rd_errors = 0
    /\ progress_info = NoInfo

SpecProgress == InitProgress /\ [][NextProgress]_vars

\* C37: every ProgressInfo that get_progress returns while other tasks
\* record completions has errors <= completed <= total, so neither
\* subtraction goes below zero, the call does not panic, and
\* success + errors = completed.
C37_ProgressIsConsistent ==
    /\ rd_pc # "panicked"
    /\ progress_info # NoInfo =>
          /\ progress_info.errors <= progress_info.completed
          /\ progress_info.completed <= progress_info.total
          /\ ~progress_info.underflow
          /\ progress_info.success + progress_info.errors
                = progress_info.completed
====
